---- MODULE Spec2Model ----
(***************************************************************************)
(* Camera session core of the Metavision SDK driver (camera.cpp):          *)
(* the start/stop handshake between caller threads and the acquisition     *)
(* thread, the buffer pump, the callback registry and the recording flag.  *)
(*                                                                         *)
(* Every thread has a program counter.  A step that only touches state     *)
(* protected by run_thread_mutex_ while the mutex is held is merged with   *)
(* its neighbours; every read or write of a flag that another thread can   *)
(* touch without that mutex (is_running_, camera_is_started_,              *)
(* is_recording_, the callback maps) is a step of its own.  The sections   *)
(* under cbs_mutex_ (one map copy, insert or erase) are single steps.      *)
(***************************************************************************)
EXTENDS Integers, Sequences, FiniteSets, TLC

\* ------------------------------------------------------------- bounds
MaxStarts   == 2    \* start() calls in one behaviour
MaxStops    == 2    \* stop() calls in one behaviour
MaxRecOps   == 2    \* start_recording()/stop_recording() calls in one behaviour
MaxIds      == 2    \* callback identifiers issued in one behaviour
MaxSub      == 2    \* sub-buffers of one polled buffer in real-time emulation
MaxSpurious == 1    \* spurious condition-variable wake-ups in one behaviour
MaxSideStarts == 1  \* start() calls where recording, the registry or fairness is added
MaxSideStops  == 1  \* stop() calls where recording or the registry is added
MaxSideIds    == 1  \* callback identifiers issued beside start() and stop()
MaxSideRecOps == 1  \* recording calls beside concurrent start() and stop() calls
MaxFairCalls  == 3  \* start() and stop() calls together under fair scheduling
MaxRecCalls   == 3  \* start(), stop() and recording calls together, any thread
MaxSeqCalls   == 4  \* start(), stop() and recording calls together, recording calls in turn
MaxTs      == 3    \* greatest decoded timestamp (us)
MaxClock   == 5    \* span of the system clock after ClockBase (us)
MaxTick    == 2    \* longest decode of one sub-buffer (us)
MaxRuns    == 2    \* runs of the acquisition loop under real-time emulation
MaxLogOps  == 3    \* calls made to one StreamLoggerAlgorithm
MaxSplit   == 2    \* greatest split time asked for (s)
MaxLogTs   == 3    \* greatest buffer timestamp given to the logger (s)

Clients == {"A", "B"}
Pump    == "pump"
Threads == Clients \cup {Pump}
Free    == "free"
Ids     == 1..MaxIds

VARIABLES
    is_init,            \* is_init_
    from_file,          \* from_file_
    emulate_rt,         \* emulate_real_time_
    pc,                 \* position of each thread in its code
    op,                 \* the public operation a caller thread is in
    ret,                \* where set_is_running()/stop_recording() returns to
    sir_arg,            \* argument of the set_is_running() call in progress
    snap,               \* callbacks_to_call still to be invoked
    sir_edge,           \* history: the write of is_running_ in progress changed its value
    my_id,              \* save_id of the add_*_callback() in progress
    error,              \* exception thrown by the thread's last operation
    mutex,              \* owner of run_thread_mutex_
    cv_waiters,         \* threads blocked in run_thread_cond_.wait
    joinable,           \* run_thread_.joinable()
    camera_is_started,  \* camera_is_started_
    run_thread_status,  \* run_thread_status_
    is_running,         \* is_running_
    is_recording,       \* is_recording_
    stream_started,     \* the event stream: start()ed and not stop()ped since
    device_started,     \* the device control: start()ed and not stop()ped since
    stream_logging,     \* the event stream is logging raw data
    res,                \* res of run_main_loop
    emu_left,           \* sub-buffers of the polled buffer not yet decoded
    tag_seen,           \* tag_count(DECODE_CALLBACK_TAG_ID) while the range in hand is handled
    range_state,        \* the byte range in hand: "none", "polled" (not yet decoded),
                        \* "decoded" (i_decoder_->decode has run on it and its
                        \* typed-event callbacks have returned) or "skipped" (handed
                        \* on undecoded)
    sc_map,             \* keys of status_change_callback_map_
    err_map,            \* keys of runtime_error_callback_map_
    next_index,         \* next value of index_generator_
    \* ---- history (not program state)
    sc_log,             \* per status-change callback: the notifications it got
    err_calls,          \* per runtime-error callback: times it was invoked
    err_at_fail,        \* runtime_error_callback_map_ when the poll failed
    sc_early,           \* status callbacks registered before the first start()
    sc_removed,         \* status callbacks removed at some time
    err_removed,        \* runtime-error callbacks removed at some time
    add_log,            \* <<kind, id>> of the add_*_callback calls, as they returned
    last_rm,            \* <<kind, id, result>> of the last remove_*_callback call
    failed,             \* operations that have thrown CameraNotInitialized
    cbs_mutex,          \* owner of cbs_mutex_, or Free
    \* ---- StreamLoggerAlgorithm
    enable_,                \* enable_
    split_timestamp_secs_,  \* split_timestamp_secs_
    split_timestamp_us_,    \* split_timestamp_us_
    split_counter_,         \* split_counter_
    initial_timestamp_,     \* initial_timestamp_
    last_timestamp_,        \* last_timestamp_
    header_written_,        \* header_written_
    output_open,            \* output_.is_open()
    lg_call,                \* the last call: <<number, name, arguments...>>
    lg_thrown,              \* the last call ended with an exception
    lg_opens,               \* output_.open calls
    \* ---- real-time emulation clocks
    first_ts,           \* first_ts_
    first_ts_clock,     \* first_ts_clock_ (0: not set)
    last_timestamp,     \* i_decoder_->get_last_timestamp()
    system_time_us,     \* get_system_time_us()
    slept,              \* duration of the last sleep_for, 0 when none
    emu_pc,             \* where the emulation loop stands: "init", "loop", "pace"
    n_init,             \* init_clocks calls
    raw_event_size_bytes,  \* i_decoder_->get_raw_event_size_bytes()
    n_rawbytes,         \* size of the polled buffer handed to emulate_real_time
    ev_buffer,          \* emulate_real_time: ev_buffer - ev_buffer_ref
    decoded,            \* the sub-buffers given to decode(), as << offset, size >>
    split_pc,           \* emulate_real_time: "out", "test", "body", "end"
    n_bufs,             \* buffers handed to emulate_real_time
    n_start, n_stop, n_rec, n_spurious,      \* calls begun
    start_true, start_false, stop_true, stop_false,  \* calls returned
    spawned,            \* threads created
    n_threads,          \* threads created and not yet joined
    stop_overlap        \* two stop() calls have been in progress together

vars == << is_init, from_file, emulate_rt, pc, op, ret, sir_arg, snap, sir_edge, my_id, error,
           mutex, cv_waiters, joinable, camera_is_started, run_thread_status,
           is_running, is_recording, stream_started, device_started, stream_logging,
           res, emu_left, range_state, tag_seen, sc_map, err_map, next_index,
           sc_log, err_calls, err_at_fail, sc_early, sc_removed,
           err_removed, add_log, last_rm, failed, cbs_mutex,
           enable_, split_timestamp_secs_, split_timestamp_us_, split_counter_,
           initial_timestamp_, last_timestamp_, header_written_, output_open,
           lg_call, lg_thrown, lg_opens,
           first_ts, first_ts_clock, last_timestamp, system_time_us, slept, emu_pc, n_init,
           raw_event_size_bytes, n_rawbytes, ev_buffer, decoded, split_pc, n_bufs,
           n_start, n_stop, n_rec, n_spurious,
           start_true, start_false, stop_true, stop_false,
           spawned, n_threads, stop_overlap >>

configVars == << is_init, from_file, emulate_rt >>
splitVars  == << raw_event_size_bytes, n_rawbytes, ev_buffer, decoded, split_pc, n_bufs >>
regVars    == << sc_map, err_map, next_index, my_id, sc_early, sc_removed,
                 err_removed, add_log, last_rm >>
auditVars  == << failed >>
cbVars     == << cbs_mutex >>
loggerVars == << enable_, split_timestamp_secs_, split_timestamp_us_, split_counter_,
                 initial_timestamp_, last_timestamp_, header_written_, output_open,
                 lg_call, lg_thrown, lg_opens >>
paceVars   == << first_ts, first_ts_clock, last_timestamp, system_time_us, slept, emu_pc,
                 n_init >>
recVars    == << is_recording, stream_logging, n_rec >>
pumpVars   == << res, emu_left, range_state, tag_seen >>
histVars   == << sc_log, err_calls, err_at_fail >>
countVars  == << n_start, n_stop, start_true, start_false, stop_true, stop_false,
                 spawned, n_threads, stop_overlap >>
lockVars   == << mutex, cv_waiters, n_spurious >>
flagVars   == << joinable, camera_is_started, run_thread_status, is_running >>
hwVars     == << stream_started, device_started >>
sirVars    == << ret, sir_arg, snap, sir_edge >>

\* std::numeric_limits<std::int32_t>::max()
InvalidTimestamp == 2147483647

\* The system clock reads far more than any span of decoded timestamps.
ClockBase == MaxTs + 1

MinOf(S) == CHOOSE x \in S : \A y \in S : x <= y

\* ------------------------------------------------------------- Init
\* Camera() leaves is_init_ false; every other constructor sets it and
\* open_raw_file sets from_file_ and emulate_real_time_.
Init ==
    /\ is_init \in BOOLEAN
    /\ from_file \in BOOLEAN
    /\ emulate_rt \in BOOLEAN
    /\ (emulate_rt => from_file)
    /\ (~is_init => ~from_file)
    /\ pc = [t \in Threads |-> IF t = Pump THEN "none" ELSE "idle"]
    /\ op = [t \in Clients |-> "none"]
    /\ ret = [t \in Threads |-> "idle"]
    /\ sir_arg = [t \in Threads |-> FALSE]
    /\ snap = [t \in Threads |-> {}]
    /\ sir_edge = [t \in Threads |-> FALSE]
    /\ my_id = [t \in Clients |-> 0]
    /\ error = [t \in Clients |-> "none"]
    /\ mutex = Free
    /\ cv_waiters = {}
    /\ joinable = FALSE
    /\ camera_is_started = FALSE
    /\ run_thread_status = "NOT_STARTED"
    /\ is_running = FALSE
    /\ is_recording = FALSE
    /\ stream_started = FALSE
    /\ device_started = FALSE
    /\ stream_logging = FALSE
    /\ res = 0
    /\ emu_left = 0
    /\ range_state = "none"
    /\ tag_seen = 0
    /\ cbs_mutex = Free
    /\ enable_ = FALSE
    /\ split_timestamp_secs_ = InvalidTimestamp
    /\ split_timestamp_us_ = InvalidTimestamp
    /\ split_counter_ = 0
    /\ initial_timestamp_ = 0
    /\ last_timestamp_ = 0
    /\ header_written_ = FALSE
    /\ output_open = FALSE
    /\ lg_call = << 0, "none" >>
    /\ lg_thrown = FALSE
    /\ lg_opens = 0
    /\ first_ts = 0
    /\ first_ts_clock = 0
    /\ last_timestamp = 0
    /\ system_time_us = ClockBase
    /\ slept = 0
    /\ raw_event_size_bytes = 0
    /\ n_rawbytes = 0
    /\ ev_buffer = 0
    /\ decoded = << >>
    /\ split_pc = "out"
    /\ n_bufs = 0
    /\ emu_pc = "init"
    /\ n_init = 0
    /\ sc_map = {}
    /\ err_map = {}
    /\ next_index = 1
    /\ sc_log = [i \in Ids |-> << >>]
    /\ err_calls = [i \in Ids |-> 0]
    /\ err_at_fail = {}
    /\ sc_early = {}
    /\ sc_removed = {}
    /\ err_removed = {}
    /\ add_log = << >>
    /\ last_rm = << >>
    /\ failed = {}
    /\ n_start = 0 /\ n_stop = 0 /\ n_rec = 0 /\ n_spurious = 0
    /\ start_true = 0 /\ start_false = 0 /\ stop_true = 0 /\ stop_false = 0
    /\ spawned = 0
    /\ n_threads = 0
    /\ stop_overlap = FALSE

\* ------------------------------------------------------------- helpers
Goto(t, l) == pc' = [pc EXCEPT ![t] = l]

\* Leaving a public operation: back to the caller.
Return(t) == /\ pc' = [pc EXCEPT ![t] = "idle"]
             /\ op' = [op EXCEPT ![t] = "none"]

\* run_thread_cond_.notify_one(): wakes one waiting thread, if any; the woken
\* thread must take run_thread_mutex_ again before it tests its predicate.
Relock(w) == IF w = Pump THEN "run_lock" ELSE "stop_relock"

NotifyOne(t, next) ==
    IF cv_waiters = {}
    THEN /\ Goto(t, next)
         /\ UNCHANGED cv_waiters
    ELSE \E w \in cv_waiters :
            /\ cv_waiters' = cv_waiters \ {w}
            /\ pc' = [pc EXCEPT ![t] = next, ![w] = Relock(w)]

\* check_initialization()
CheckInitialization == is_init

\* ------------------------------------------------------------- set_is_running
\* set_is_running(v), entered by thread t, returning to r.
CallSir(t, v, r) ==
    /\ pc' = [pc EXCEPT ![t] = "sir_read"]
    /\ sir_arg' = [sir_arg EXCEPT ![t] = v]
    /\ ret' = [ret EXCEPT ![t] = r]
    /\ UNCHANGED << snap, sir_edge >>

\* A set_is_running that writes and notifies whether the value changes or not.
SirRead_NoTest(t) ==
    /\ pc[t] = "sir_read"
    /\ Goto(t, "sir_write")
    /\ UNCHANGED << configVars, splitVars, loggerVars, paceVars, cbVars, auditVars, op, error, sirVars, regVars, recVars, pumpVars,
                    histVars, countVars, lockVars, flagVars, hwVars >>

\* if (is_running_ != is_running)
SirRead(t) ==
    /\ pc[t] = "sir_read"
    /\ IF is_running # sir_arg[t] THEN Goto(t, "sir_write") ELSE Goto(t, ret[t])
    /\ UNCHANGED << configVars, splitVars, loggerVars, paceVars, cbVars, auditVars, op, error, sirVars, regVars, recVars, pumpVars,
                    histVars, countVars, lockVars, flagVars, hwVars >>

\* is_running_ = is_running
SirWrite(t) ==
    /\ pc[t] = "sir_write"
    /\ is_running' = sir_arg[t]
    /\ sir_edge' = [sir_edge EXCEPT ![t] = (is_running # sir_arg[t])]
    /\ Goto(t, "sir_snap")
    /\ UNCHANGED << configVars, splitVars, loggerVars, paceVars, cbVars, auditVars, op, error, ret, sir_arg, snap, regVars, recVars, pumpVars,
                    histVars, countVars, lockVars, hwVars,
                    joinable, camera_is_started, run_thread_status >>

\* A snapshot whose lock stays held while the callbacks are invoked.
SirSnap_KeepLock(t) ==
    /\ pc[t] = "sir_snap"
    /\ cbs_mutex = Free
    /\ IF sc_map = {}
       THEN /\ Goto(t, ret[t])
            /\ sir_edge' = [sir_edge EXCEPT ![t] = FALSE]
            /\ cbs_mutex' = Free
            /\ UNCHANGED snap
       ELSE /\ Goto(t, "sir_call")
            /\ snap' = [snap EXCEPT ![t] = sc_map]
            /\ cbs_mutex' = t
            /\ UNCHANGED sir_edge
    /\ UNCHANGED << configVars, splitVars, loggerVars, paceVars, auditVars, op, error, ret, sir_arg, regVars, recVars, pumpVars,
                    histVars, countVars, lockVars, flagVars, hwVars >>

\* { unique_lock lock(cbs_mutex_); callbacks_to_call = status_change_callback_map_; }
\* the lock is taken, the map copied and the lock released at the closing brace
SirSnap(t) ==
    /\ pc[t] = "sir_snap"
    /\ cbs_mutex = Free
    /\ cbs_mutex' = Free
    /\ IF sc_map = {}
       THEN /\ Goto(t, ret[t])
            /\ sir_edge' = [sir_edge EXCEPT ![t] = FALSE]
            /\ UNCHANGED snap
       ELSE /\ Goto(t, "sir_call")
            /\ snap' = [snap EXCEPT ![t] = sc_map]
            /\ UNCHANGED sir_edge
    /\ UNCHANGED << configVars, splitVars, loggerVars, paceVars, auditVars, op, error, ret, sir_arg, regVars, recVars, pumpVars,
                    histVars, countVars, lockVars, flagVars, hwVars >>

\* one iteration of the loop over callbacks_to_call (std::map order): the
\* callback is invoked; with body it goes on to what the callback does itself
SirInvoke(t, body) ==
    /\ pc[t] = "sir_call"
    /\ LET id   == MinOf(snap[t])
           rest == snap[t] \ {id}
       IN /\ sc_log' = [sc_log EXCEPT
                          ![id] = Append(@, IF sir_arg[t] THEN "STARTED" ELSE "STOPPED")]
          /\ snap' = [snap EXCEPT ![t] = rest]
          /\ sir_edge' = [sir_edge EXCEPT ![t] = (rest # {} /\ @)]
          /\ Goto(t, IF body THEN "cb_body" ELSE IF rest = {} THEN ret[t] ELSE "sir_call")
    /\ UNCHANGED << configVars, splitVars, loggerVars, paceVars, cbVars, auditVars, op, error, ret, sir_arg, regVars, recVars, pumpVars,
                    err_calls, err_at_fail, countVars, lockVars, flagVars, hwVars >>

\* a callback that returns without calling the session
SirCall(t) == SirInvoke(t, FALSE)

\* a callback that may call add_*_callback or remove_*_callback before it returns
SirCallReentrant(t) == SirInvoke(t, TRUE)

\* ------------------------------------------------------------- start()
StartCall(t) ==
    /\ pc[t] = "idle"
    /\ n_start < MaxStarts
    /\ n_start' = n_start + 1
    /\ IF CheckInitialization
       THEN /\ pc' = [pc EXCEPT ![t] = "start_lock"]
            /\ op' = [op EXCEPT ![t] = "start"]
            /\ error' = [error EXCEPT ![t] = "none"]
            /\ UNCHANGED failed
       ELSE /\ error' = [error EXCEPT ![t] = "CameraNotInitialized"]
            /\ failed' = failed \cup {"start"}
            /\ UNCHANGED << pc, op >>
    /\ UNCHANGED << configVars, splitVars, loggerVars, paceVars, cbVars, sirVars, regVars, recVars, pumpVars, histVars,
                    n_stop, start_true, start_false, stop_true, stop_false,
                    spawned, n_threads, stop_overlap, lockVars, flagVars, hwVars >>

\* run_thread_.joinable(): return false
StartAlready(t) ==
    /\ start_false' = start_false + 1
    /\ Return(t)
    /\ UNCHANGED << sirVars, mutex, joinable, camera_is_started, spawned, n_threads >>

\* camera_is_started_ = false; run_thread_ = std::thread(...); set_is_running(true)
StartSpawn(t) ==
    /\ mutex' = t
    /\ camera_is_started' = FALSE
    /\ joinable' = TRUE
    /\ spawned' = spawned + 1
    /\ n_threads' = n_threads + 1
    /\ pc' = [pc EXCEPT ![t] = "sir_read", ![Pump] = "run_lock"]
    /\ sir_arg' = [sir_arg EXCEPT ![t] = TRUE]
    /\ ret' = [ret EXCEPT ![t] = "start_set_status"]
    /\ UNCHANGED << op, snap, sir_edge, start_false >>

\* start() without the joinable test: a thread is created on every call.
StartEnter_NoJoinableTest(t) ==
    /\ pc[t] = "start_lock"
    /\ mutex = Free
    /\ StartSpawn(t)
    /\ UNCHANGED << configVars, splitVars, loggerVars, paceVars, cbVars, auditVars, error, regVars, recVars, pumpVars, histVars,
                    n_start, n_stop, start_true, stop_true, stop_false, stop_overlap,
                    cv_waiters, n_spurious, run_thread_status, is_running, hwVars >>

StartEnter(t) ==
    /\ pc[t] = "start_lock"
    /\ mutex = Free
    /\ IF joinable THEN StartAlready(t) ELSE StartSpawn(t)
    /\ UNCHANGED << configVars, splitVars, loggerVars, paceVars, cbVars, auditVars, error, regVars, recVars, pumpVars, histVars,
                    n_start, n_stop, start_true, stop_true, stop_false, stop_overlap,
                    cv_waiters, n_spurious, run_thread_status, is_running, hwVars >>

\* start() leaving its locked scope without run_thread_status_ = STARTED.
StartSetStatus_NoStatus(t) ==
    /\ pc[t] = "start_set_status"
    /\ mutex' = Free
    /\ Goto(t, "start_notify")
    /\ UNCHANGED << configVars, splitVars, loggerVars, paceVars, cbVars, auditVars, op, error, sirVars, regVars, recVars, pumpVars,
                    histVars, countVars, cv_waiters, n_spurious, flagVars, hwVars >>

\* run_thread_status_ = STARTED; end of the locked scope
StartSetStatus(t) ==
    /\ pc[t] = "start_set_status"
    /\ run_thread_status' = "STARTED"
    /\ mutex' = Free
    /\ Goto(t, "start_notify")
    /\ UNCHANGED << configVars, splitVars, loggerVars, paceVars, cbVars, auditVars, op, error, sirVars, regVars, recVars, pumpVars,
                    histVars, countVars, cv_waiters, n_spurious,
                    joinable, camera_is_started, is_running, hwVars >>

\* run_thread_cond_.notify_one()
StartNotify(t) ==
    /\ pc[t] = "start_notify"
    /\ NotifyOne(t, "start_spin")
    /\ UNCHANGED << configVars, splitVars, loggerVars, paceVars, cbVars, auditVars, op, error, sirVars, regVars, recVars, pumpVars,
                    histVars, countVars, mutex, n_spurious, flagVars, hwVars >>

\* while (!camera_is_started_) {}  return true
StartSpin(t) ==
    /\ pc[t] = "start_spin"
    /\ camera_is_started
    /\ start_true' = start_true + 1
    /\ Return(t)
    /\ UNCHANGED << configVars, splitVars, loggerVars, paceVars, cbVars, auditVars, error, sirVars, regVars, recVars, pumpVars, histVars,
                    n_start, n_stop, start_false, stop_true, stop_false,
                    spawned, n_threads, stop_overlap, lockVars, flagVars, hwVars >>

\* ------------------------------------------------------------- stop()
StopCall(t) ==
    /\ pc[t] = "idle"
    /\ n_stop < MaxStops
    /\ n_stop' = n_stop + 1
    /\ IF CheckInitialization
       THEN /\ pc' = [pc EXCEPT ![t] = "stop_lock"]
            /\ op' = [op EXCEPT ![t] = "stop"]
            /\ error' = [error EXCEPT ![t] = "none"]
            /\ stop_overlap' = (stop_overlap \/ \E u \in Clients \ {t} : op[u] = "stop")
            /\ UNCHANGED failed
       ELSE /\ error' = [error EXCEPT ![t] = "CameraNotInitialized"]
            /\ failed' = failed \cup {"stop"}
            /\ UNCHANGED << pc, op, stop_overlap >>
    /\ UNCHANGED << configVars, splitVars, loggerVars, paceVars, cbVars, sirVars, regVars, recVars, pumpVars, histVars,
                    n_start, start_true, start_false, stop_true, stop_false,
                    spawned, n_threads, lockVars, flagVars, hwVars >>

\* A stop() that does not wait for the status RUNNING.
StopTry_NoWait(t, first) ==
    /\ mutex = Free
    /\ IF first /\ ~joinable
       THEN /\ stop_false' = stop_false + 1
            /\ Return(t)
            /\ UNCHANGED << sirVars, mutex, cv_waiters, run_thread_status >>
       ELSE /\ run_thread_status' = "STOPPED"
            /\ mutex' = t
            /\ CallSir(t, FALSE, "stop_stream")
            /\ UNCHANGED << op, cv_waiters, stop_false >>
    /\ UNCHANGED << configVars, splitVars, loggerVars, paceVars, cbVars, auditVars, error, regVars, recVars, pumpVars, histVars,
                    n_start, n_stop, start_true, start_false, stop_true,
                    spawned, n_threads, stop_overlap, n_spurious,
                    joinable, camera_is_started, is_running, hwVars >>

\* A stop() that unblocks the stream without clearing is_running first.
StopTry_NoSetIsRunning(t, first) ==
    /\ mutex = Free
    /\ IF first /\ ~joinable
       THEN /\ stop_false' = stop_false + 1
            /\ Return(t)
            /\ UNCHANGED << sirVars, mutex, cv_waiters, run_thread_status >>
       ELSE IF run_thread_status = "RUNNING"
       THEN /\ run_thread_status' = "STOPPED"
            /\ mutex' = t
            /\ Goto(t, "stop_stream")
            /\ UNCHANGED << op, sirVars, cv_waiters, stop_false >>
       ELSE /\ cv_waiters' = cv_waiters \cup {t}
            /\ Goto(t, "stop_cvwait")
            /\ UNCHANGED << op, sirVars, mutex, run_thread_status, stop_false >>
    /\ UNCHANGED << configVars, splitVars, loggerVars, paceVars, cbVars, auditVars, error, regVars, recVars, pumpVars, histVars,
                    n_start, n_stop, start_true, start_false, stop_true,
                    spawned, n_threads, stop_overlap, n_spurious,
                    joinable, camera_is_started, is_running, hwVars >>

\* With run_thread_mutex_ taken: the joinable test (first entry only), then the
\* predicate of run_thread_cond_.wait; a false predicate releases the mutex and
\* blocks, a true one goes on to run_thread_status_ = STOPPED; set_is_running(false).
StopTry(t, first) ==
    /\ mutex = Free
    /\ IF first /\ ~joinable
       THEN /\ stop_false' = stop_false + 1
            /\ Return(t)
            /\ UNCHANGED << sirVars, mutex, cv_waiters, run_thread_status >>
       ELSE IF run_thread_status = "RUNNING"
       THEN /\ run_thread_status' = "STOPPED"
            /\ mutex' = t
            /\ CallSir(t, FALSE, "stop_stream")
            /\ UNCHANGED << op, cv_waiters, stop_false >>
       ELSE /\ cv_waiters' = cv_waiters \cup {t}
            /\ Goto(t, "stop_cvwait")
            /\ UNCHANGED << op, sirVars, mutex, run_thread_status, stop_false >>
    /\ UNCHANGED << configVars, splitVars, loggerVars, paceVars, cbVars, auditVars, error, regVars, recVars, pumpVars, histVars,
                    n_start, n_stop, start_true, start_false, stop_true,
                    spawned, n_threads, stop_overlap, n_spurious,
                    joinable, camera_is_started, is_running, hwVars >>

\* stop() without the joinable test.
StopEnter_NoJoinableTest(t) == pc[t] = "stop_lock" /\ StopTry(t, FALSE)

StopEnter(t) == pc[t] = "stop_lock" /\ StopTry(t, TRUE)

StopRelock(t) == pc[t] = "stop_relock" /\ StopTry(t, FALSE)

\* stop() that does not stop the event stream.
StopStream_Skipped(t) ==
    /\ pc[t] = "stop_stream"
    /\ Goto(t, "stop_device")
    /\ UNCHANGED << configVars, splitVars, loggerVars, paceVars, cbVars, auditVars, op, error, sirVars, regVars, recVars, pumpVars,
                    histVars, countVars, lockVars, flagVars, hwVars >>

\* i_events_stream_->stop()
StopStream(t) ==
    /\ pc[t] = "stop_stream"
    /\ stream_started' = FALSE
    /\ Goto(t, "stop_device")
    /\ UNCHANGED << configVars, splitVars, loggerVars, paceVars, cbVars, auditVars, op, error, sirVars, regVars, recVars, pumpVars,
                    histVars, countVars, lockVars, flagVars, device_started >>

\* stop() that stops the recording before it joins the thread (no join at all).
StopDevice_ThenStopRecording(t) ==
    /\ pc[t] = "stop_device"
    /\ device_started' = (IF from_file THEN device_started ELSE FALSE)
    /\ pc' = [pc EXCEPT ![t] = "srec_log"]
    /\ ret' = [ret EXCEPT ![t] = "stop_ret"]
    /\ UNCHANGED << configVars, splitVars, loggerVars, paceVars, cbVars, auditVars, op, error, sir_arg, snap, sir_edge, regVars, recVars, pumpVars,
                    histVars, countVars, lockVars, flagVars, stream_started >>

\* if (i_device_control_) i_device_control_->stop();  (set for live sources only)
StopDevice(t) ==
    /\ pc[t] = "stop_device"
    /\ device_started' = (IF from_file THEN device_started ELSE FALSE)
    /\ Goto(t, "stop_join")
    /\ UNCHANGED << configVars, splitVars, loggerVars, paceVars, cbVars, auditVars, op, error, sirVars, regVars, recVars, pumpVars,
                    histVars, countVars, lockVars, flagVars, stream_started >>

\* stop() without the join: the finished thread stays joinable.
StopJoin_NoJoin(t) ==
    /\ pc[t] = "stop_join"
    /\ pc[Pump] = "done"
    /\ joinable' = joinable
    /\ n_threads' = n_threads - 1
    /\ pc' = [pc EXCEPT ![t] = "srec_log", ![Pump] = "none"]
    /\ ret' = [ret EXCEPT ![t] = "stop_ret"]
    /\ res' = 0
    /\ emu_left' = 0
    /\ range_state' = "none"
    /\ tag_seen' = 0
    /\ UNCHANGED << configVars, splitVars, loggerVars, paceVars, cbVars, auditVars, op, error, sir_arg, snap, sir_edge, regVars, recVars,
                    histVars, n_start, n_stop, start_true, start_false, stop_true,
                    stop_false, spawned, stop_overlap, lockVars,
                    camera_is_started, run_thread_status, is_running, hwVars >>

\* run_thread_.join(), which ends the joined thread's locals; then stop_recording()
StopJoin(t) ==
    /\ pc[t] = "stop_join"
    /\ pc[Pump] = "done"
    /\ joinable' = FALSE
    /\ n_threads' = n_threads - 1
    /\ pc' = [pc EXCEPT ![t] = "srec_log", ![Pump] = "none"]
    /\ ret' = [ret EXCEPT ![t] = "stop_ret"]
    /\ res' = 0
    /\ emu_left' = 0
    /\ range_state' = "none"
    /\ tag_seen' = 0
    /\ UNCHANGED << configVars, splitVars, loggerVars, paceVars, cbVars, auditVars, op, error, sir_arg, snap, sir_edge, regVars, recVars,
                    histVars, n_start, n_stop, start_true, start_false, stop_true,
                    stop_false, spawned, stop_overlap, lockVars,
                    camera_is_started, run_thread_status, is_running, hwVars >>

\* return true (the lock goes out of scope)
StopReturn(t) ==
    /\ pc[t] = "stop_ret"
    /\ mutex' = Free
    /\ stop_true' = stop_true + 1
    /\ Return(t)
    /\ UNCHANGED << configVars, splitVars, loggerVars, paceVars, cbVars, auditVars, error, sirVars, regVars, recVars, pumpVars, histVars,
                    n_start, n_stop, start_true, start_false, stop_false,
                    spawned, n_threads, stop_overlap, cv_waiters, n_spurious,
                    flagVars, hwVars >>

\* ------------------------------------------------------------- recording
\* A stop_recording() that leaves the stream logging.
SrecLog_KeepLogging(t) ==
    /\ pc[t] = "srec_log"
    /\ stream_logging' = stream_logging
    /\ Goto(t, "srec_flag")
    /\ UNCHANGED << configVars, splitVars, loggerVars, paceVars, cbVars, auditVars, op, error, sirVars, regVars, is_recording, n_rec,
                    pumpVars, histVars, countVars, lockVars, flagVars, hwVars >>

\* stop_recording(): i_events_stream_->stop_log_raw_data()
SrecLog(t) ==
    /\ pc[t] = "srec_log"
    /\ stream_logging' = FALSE
    /\ Goto(t, "srec_flag")
    /\ UNCHANGED << configVars, splitVars, loggerVars, paceVars, cbVars, auditVars, op, error, sirVars, regVars, is_recording, n_rec,
                    pumpVars, histVars, countVars, lockVars, flagVars, hwVars >>

\* A stop_recording() that flips the flag instead of clearing it.
SrecFlag_Toggle(t) ==
    /\ pc[t] = "srec_flag"
    /\ is_recording' = ~is_recording
    /\ IF ret[t] = "idle" THEN Return(t) ELSE Goto(t, ret[t]) /\ UNCHANGED op
    /\ UNCHANGED << configVars, splitVars, loggerVars, paceVars, cbVars, auditVars, error, sirVars, regVars, stream_logging, n_rec,
                    pumpVars, histVars, countVars, lockVars, flagVars, hwVars >>

\* stop_recording(): is_recording_ = false
SrecFlag(t) ==
    /\ pc[t] = "srec_flag"
    /\ is_recording' = FALSE
    /\ IF ret[t] = "idle" THEN Return(t) ELSE Goto(t, ret[t]) /\ UNCHANGED op
    /\ UNCHANGED << configVars, splitVars, loggerVars, paceVars, cbVars, auditVars, error, sirVars, regVars, stream_logging, n_rec,
                    pumpVars, histVars, countVars, lockVars, flagVars, hwVars >>

\* A start_recording() that does not stop the recording in progress first.
RecordingCall_NoStopFirst(t, which) ==
    /\ pc[t] = "idle"
    /\ n_rec < MaxRecOps
    /\ n_rec' = n_rec + 1
    /\ IF CheckInitialization
       THEN /\ pc' = [pc EXCEPT ![t] = IF which = "start_recording"
                                        THEN "rec_log" ELSE "srec_log"]
            /\ op' = [op EXCEPT ![t] = which]
            /\ ret' = [ret EXCEPT ![t] = "idle"]
            /\ error' = [error EXCEPT ![t] = "none"]
            /\ UNCHANGED failed
       ELSE /\ error' = [error EXCEPT ![t] = "CameraNotInitialized"]
            /\ failed' = failed \cup {which}
            /\ UNCHANGED << pc, op, ret >>
    /\ UNCHANGED << configVars, splitVars, loggerVars, paceVars, cbVars, sir_arg, snap, sir_edge, regVars, is_recording, stream_logging,
                    pumpVars, histVars, countVars, lockVars, flagVars, hwVars >>

\* A caller enters start_recording() (which = "start_recording": the checks, then
\* stop_recording(), then the logging request) or stop_recording().
RecordingCall(t, which) ==
    /\ pc[t] = "idle"
    /\ n_rec < MaxRecOps
    /\ n_rec' = n_rec + 1
    /\ IF CheckInitialization
       THEN /\ pc' = [pc EXCEPT ![t] = "srec_log"]
            /\ op' = [op EXCEPT ![t] = which]
            /\ ret' = [ret EXCEPT ![t] = IF which = "start_recording"
                                          THEN "rec_log" ELSE "idle"]
            /\ error' = [error EXCEPT ![t] = "none"]
            /\ UNCHANGED failed
       ELSE /\ error' = [error EXCEPT ![t] = "CameraNotInitialized"]
            /\ failed' = failed \cup {which}
            /\ UNCHANGED << pc, op, ret >>
    /\ UNCHANGED << configVars, splitVars, loggerVars, paceVars, cbVars, sir_arg, snap, sir_edge, regVars, is_recording, stream_logging,
                    pumpVars, histVars, countVars, lockVars, flagVars, hwVars >>

StartRecordingCall(t) == RecordingCall(t, "start_recording")

StopRecordingCall(t) == RecordingCall(t, "stop_recording")

\* i_events_stream_->log_raw_data(path): the stream opens the file or fails
RecLog(t) ==
    /\ pc[t] = "rec_log"
    /\ \E ok \in BOOLEAN :
          IF ok
          THEN /\ stream_logging' = TRUE
               /\ Goto(t, "rec_set")
               /\ UNCHANGED << op, error >>
          ELSE /\ error' = [error EXCEPT ![t] = "CouldNotOpenFile"]
               /\ Return(t)
               /\ UNCHANGED stream_logging
    /\ UNCHANGED << configVars, splitVars, loggerVars, paceVars, cbVars, auditVars, sirVars, regVars, is_recording, n_rec,
                    pumpVars, histVars, countVars, lockVars, flagVars, hwVars >>

\* is_recording_ = true
RecSet(t) ==
    /\ pc[t] = "rec_set"
    /\ is_recording' = TRUE
    /\ Return(t)
    /\ UNCHANGED << configVars, splitVars, loggerVars, paceVars, cbVars, auditVars, error, sirVars, regVars, stream_logging, n_rec,
                    pumpVars, histVars, countVars, lockVars, flagVars, hwVars >>

\* ------------------------------------------------------------- callback registry
\* index_generator_.get_next_index()
GetNextIndex == next_index

\* add_*_callback that draws its identifier without advancing the generator.
AddCall_NoIncrement(t, which) ==
    /\ pc[t] = "idle"
    /\ next_index <= MaxIds
    /\ Len(add_log) < MaxIds
    /\ IF CheckInitialization
       THEN /\ my_id' = [my_id EXCEPT ![t] = GetNextIndex]
            /\ pc' = [pc EXCEPT ![t] = "add_insert"]
            /\ op' = [op EXCEPT ![t] = which]
            /\ error' = [error EXCEPT ![t] = "none"]
            /\ UNCHANGED failed
       ELSE /\ error' = [error EXCEPT ![t] = "CameraNotInitialized"]
            /\ failed' = failed \cup {which}
            /\ UNCHANGED << pc, op, my_id >>
    /\ UNCHANGED << configVars, splitVars, loggerVars, paceVars, cbVars, sirVars, sc_map, err_map, sc_early, sc_removed,
                    err_removed, add_log, last_rm, next_index,
                    recVars, pumpVars, histVars, countVars, lockVars, flagVars, hwVars >>

\* add_*_callback that draws its identifier before it checks the session.
AddCall_DrawBeforeCheck(t, which) ==
    /\ pc[t] = "idle"
    /\ next_index <= MaxIds
    /\ my_id' = [my_id EXCEPT ![t] = GetNextIndex]
    /\ next_index' = next_index + 1
    /\ IF CheckInitialization
       THEN /\ pc' = [pc EXCEPT ![t] = "add_insert"]
            /\ op' = [op EXCEPT ![t] = which]
            /\ error' = [error EXCEPT ![t] = "none"]
            /\ UNCHANGED failed
       ELSE /\ error' = [error EXCEPT ![t] = "CameraNotInitialized"]
            /\ failed' = failed \cup {which}
            /\ UNCHANGED << pc, op >>
    /\ UNCHANGED << configVars, splitVars, loggerVars, paceVars, cbVars, sirVars, sc_map, err_map, sc_early, sc_removed,
                    err_removed, add_log, last_rm,
                    recVars, pumpVars, histVars, countVars, lockVars, flagVars, hwVars >>

\* add_*_callback: check_camera_device_instance(); save_id = get_next_index()
AddCall(t, which) ==
    /\ pc[t] = "idle"
    /\ next_index <= MaxIds
    /\ IF CheckInitialization
       THEN /\ my_id' = [my_id EXCEPT ![t] = GetNextIndex]
            /\ next_index' = next_index + 1
            /\ pc' = [pc EXCEPT ![t] = "add_insert"]
            /\ op' = [op EXCEPT ![t] = which]
            /\ error' = [error EXCEPT ![t] = "none"]
            /\ UNCHANGED failed
       ELSE /\ error' = [error EXCEPT ![t] = "CameraNotInitialized"]
            /\ failed' = failed \cup {which}
            /\ UNCHANGED << pc, op, my_id, next_index >>
    /\ UNCHANGED << configVars, splitVars, loggerVars, paceVars, cbVars, sirVars, sc_map, err_map, sc_early, sc_removed,
                    err_removed, add_log, last_rm,
                    recVars, pumpVars, histVars, countVars, lockVars, flagVars, hwVars >>

AddStatusCall(t) == AddCall(t, "add_status")

AddErrorCall(t) == AddCall(t, "add_error")

\* status_change_callback_map_[save_id] = cb; return save_id
AddStatusInsert(t) ==
    /\ pc[t] = "add_insert"
    /\ cbs_mutex = Free
    /\ op[t] = "add_status"
    /\ sc_map' = sc_map \cup {my_id[t]}
    /\ sc_early' = (IF n_start = 0 THEN sc_early \cup {my_id[t]} ELSE sc_early)
    /\ add_log' = Append(add_log, << "status", my_id[t] >>)
    /\ Return(t)
    /\ UNCHANGED << configVars, splitVars, loggerVars, paceVars, cbVars, auditVars, error, sirVars, err_map, next_index, my_id, sc_removed,
                    err_removed, last_rm,
                    recVars, pumpVars, histVars, countVars, lockVars, flagVars, hwVars >>

\* runtime_error_callback_map_[save_id] = cb; return save_id
AddErrorInsert(t) ==
    /\ pc[t] = "add_insert"
    /\ cbs_mutex = Free
    /\ op[t] = "add_error"
    /\ err_map' = err_map \cup {my_id[t]}
    /\ add_log' = Append(add_log, << "error", my_id[t] >>)
    /\ Return(t)
    /\ UNCHANGED << configVars, splitVars, loggerVars, paceVars, cbVars, auditVars, error, sirVars, sc_map, next_index, my_id, sc_early,
                    sc_removed, err_removed, last_rm, recVars, pumpVars, histVars, countVars, lockVars,
                    flagVars, hwVars >>

\* remove_status_change_callback that erases the identifier from both maps.
RemoveStatus_EraseBoth(t, id) ==
    /\ pc[t] = "idle"
    /\ cbs_mutex = Free
    /\ sc_map' = sc_map \ {id}
    /\ err_map' = err_map \ {id}
    /\ sc_removed' = (IF id \in sc_map THEN sc_removed \cup {id} ELSE sc_removed)
    /\ last_rm' = << "status", id, id \in sc_map >>
    /\ UNCHANGED << configVars, splitVars, loggerVars, paceVars, cbVars, auditVars, pc, op, error, sirVars, next_index, my_id,
                    sc_early, err_removed, add_log, recVars, pumpVars, histVars, countVars, lockVars,
                    flagVars, hwVars >>

\* remove_status_change_callback(id), the whole of it under cbs_mutex_
RemoveStatus(t, id) ==
    /\ pc[t] = "idle"
    /\ cbs_mutex = Free
    /\ sc_map' = sc_map \ {id}
    /\ sc_removed' = (IF id \in sc_map THEN sc_removed \cup {id} ELSE sc_removed)
    /\ last_rm' = << "status", id, id \in sc_map >>
    /\ UNCHANGED << configVars, splitVars, loggerVars, paceVars, cbVars, auditVars, pc, op, error, sirVars, err_map, next_index, my_id,
                    sc_early, err_removed, add_log, recVars, pumpVars, histVars, countVars, lockVars,
                    flagVars, hwVars >>

\* remove_runtime_error_callback that reports the entry found and leaves it.
RemoveError_NoErase(t, id) ==
    /\ pc[t] = "idle"
    /\ cbs_mutex = Free
    /\ err_removed' = (IF id \in err_map THEN err_removed \cup {id} ELSE err_removed)
    /\ last_rm' = << "error", id, id \in err_map >>
    /\ UNCHANGED << configVars, splitVars, loggerVars, paceVars, cbVars, auditVars, pc, op, error, sirVars, sc_map, err_map,
                    next_index, my_id, sc_early, sc_removed, add_log,
                    recVars, pumpVars, histVars, countVars, lockVars, flagVars, hwVars >>

\* remove_runtime_error_callback(id), the whole of it under cbs_mutex_
RemoveError(t, id) ==
    /\ pc[t] = "idle"
    /\ cbs_mutex = Free
    /\ err_map' = err_map \ {id}
    /\ err_removed' = (IF id \in err_map THEN err_removed \cup {id} ELSE err_removed)
    /\ last_rm' = << "error", id, id \in err_map >>
    /\ UNCHANGED << configVars, splitVars, loggerVars, paceVars, cbVars, auditVars, pc, op, error, sirVars, sc_map, next_index, my_id,
                    sc_early, sc_removed, add_log, recVars, pumpVars, histVars, countVars,
                    lockVars, flagVars, hwVars >>

\* ------------------------------------------------------------- callback bodies
\* Where the dispatching thread goes when a callback returns.
AfterCallback(t) == IF snap[t] = {} THEN ret[t] ELSE "sir_call"

\* the callback calls add_status_change_callback or add_runtime_error_callback:
\* get_next_index(), then the insertion under cbs_mutex_
CbAdd(t, kind) ==
    /\ pc[t] = "cb_body"
    /\ next_index <= MaxIds
    /\ cbs_mutex = Free
    /\ next_index' = next_index + 1
    /\ sc_map' = (IF kind = "status" THEN sc_map \cup {GetNextIndex} ELSE sc_map)
    /\ err_map' = (IF kind = "error" THEN err_map \cup {GetNextIndex} ELSE err_map)
    /\ add_log' = Append(add_log, << kind, GetNextIndex >>)
    /\ Goto(t, AfterCallback(t))
    /\ UNCHANGED << configVars, splitVars, loggerVars, paceVars, cbVars, auditVars, op, error, sirVars, my_id, sc_early,
                    sc_removed, err_removed, last_rm, recVars, pumpVars, histVars, countVars,
                    lockVars, flagVars, hwVars >>

\* the callback calls remove_status_change_callback(id) or
\* remove_runtime_error_callback(id), the whole of it under cbs_mutex_
CbRemove(t, kind, id) ==
    /\ pc[t] = "cb_body"
    /\ cbs_mutex = Free
    /\ sc_map' = (IF kind = "status" THEN sc_map \ {id} ELSE sc_map)
    /\ err_map' = (IF kind = "error" THEN err_map \ {id} ELSE err_map)
    /\ sc_removed' = (IF kind = "status" /\ id \in sc_map THEN sc_removed \cup {id}
                      ELSE sc_removed)
    /\ err_removed' = (IF kind = "error" /\ id \in err_map THEN err_removed \cup {id}
                       ELSE err_removed)
    /\ last_rm' = << kind, id, id \in (IF kind = "status" THEN sc_map ELSE err_map) >>
    /\ Goto(t, AfterCallback(t))
    /\ UNCHANGED << configVars, splitVars, loggerVars, paceVars, cbVars, auditVars, op, error, sirVars, next_index, my_id,
                    sc_early, add_log, recVars, pumpVars, histVars, countVars, lockVars,
                    flagVars, hwVars >>

\* the callback returns
CbReturn(t) ==
    /\ pc[t] = "cb_body"
    /\ Goto(t, AfterCallback(t))
    /\ UNCHANGED << configVars, splitVars, loggerVars, paceVars, cbVars, auditVars, op, error, sirVars, regVars, recVars,
                    pumpVars, histVars, countVars, lockVars, flagVars, hwVars >>

\* ------------------------------------------------------------- the pump: run()
\* unique_lock; run_thread_cond_.wait(status == STARTED); status = RUNNING; unlock
PumpRunLock ==
    /\ pc[Pump] = "run_lock"
    /\ mutex = Free
    /\ IF run_thread_status = "STARTED"
       THEN /\ run_thread_status' = "RUNNING"
            /\ Goto(Pump, "run_notify")
            /\ UNCHANGED cv_waiters
       ELSE /\ cv_waiters' = cv_waiters \cup {Pump}
            /\ Goto(Pump, "run_cvwait")
            /\ UNCHANGED run_thread_status
    /\ UNCHANGED << configVars, splitVars, loggerVars, paceVars, cbVars, auditVars, op, error, sirVars, regVars, recVars, pumpVars,
                    histVars, countVars, mutex, n_spurious,
                    joinable, camera_is_started, is_running, hwVars >>

\* run_thread_cond_.notify_one()
PumpNotify ==
    /\ pc[Pump] = "run_notify"
    /\ NotifyOne(Pump, "run_stream_start")
    /\ UNCHANGED << configVars, splitVars, loggerVars, paceVars, cbVars, auditVars, op, error, sirVars, regVars, recVars, pumpVars,
                    histVars, countVars, mutex, n_spurious, flagVars, hwVars >>

\* A pump that enters the main loop right after the start of the stream, live or not.
PumpStreamStart_ThenLoop ==
    /\ pc[Pump] = "run_stream_start"
    /\ stream_started' = TRUE
    /\ Goto(Pump, "loop_enter")
    /\ UNCHANGED << configVars, splitVars, loggerVars, paceVars, cbVars, auditVars, op, error, sirVars, regVars, recVars, pumpVars,
                    histVars, countVars, lockVars, flagVars, device_started >>

\* run_from_camera / run_from_file: i_events_stream_->start()
PumpStreamStart ==
    /\ pc[Pump] = "run_stream_start"
    /\ stream_started' = TRUE
    /\ Goto(Pump, IF from_file THEN "loop_enter" ELSE "run_dev_start")
    /\ UNCHANGED << configVars, splitVars, loggerVars, paceVars, cbVars, auditVars, op, error, sirVars, regVars, recVars, pumpVars,
                    histVars, countVars, lockVars, flagVars, device_started >>

\* run_from_camera: i_device_control_->start()
PumpDevStart ==
    /\ pc[Pump] = "run_dev_start"
    /\ device_started' = TRUE
    /\ Goto(Pump, "run_dev_reset")
    /\ UNCHANGED << configVars, splitVars, loggerVars, paceVars, cbVars, auditVars, op, error, sirVars, regVars, recVars, pumpVars,
                    histVars, countVars, lockVars, flagVars, stream_started >>

\* run_from_camera: i_device_control_->reset()
PumpDevReset ==
    /\ pc[Pump] = "run_dev_reset"
    /\ Goto(Pump, "loop_enter")
    /\ UNCHANGED << configVars, splitVars, loggerVars, paceVars, cbVars, auditVars, op, error, sirVars, regVars, recVars, pumpVars,
                    histVars, countVars, lockVars, flagVars, hwVars >>

\* run_main_loop that does not set camera_is_started_.
PumpLoopEnter_FlagNotSet ==
    /\ pc[Pump] = "loop_enter"
    /\ res' = 0
    /\ emu_left' = 0
    /\ range_state' = "none"
    /\ tag_seen' = 0
    /\ Goto(Pump, "loop_check")
    /\ UNCHANGED << configVars, splitVars, loggerVars, paceVars, cbVars, auditVars, op, error, sirVars, regVars, recVars,
                    histVars, countVars, lockVars, flagVars, hwVars >>

\* run_main_loop: camera_is_started_ = true; res = 0; init_clocks()
PumpLoopEnter ==
    /\ pc[Pump] = "loop_enter"
    /\ camera_is_started' = TRUE
    /\ res' = 0
    /\ emu_left' = 0
    /\ range_state' = "none"
    /\ tag_seen' = 0
    /\ Goto(Pump, "loop_check")
    /\ UNCHANGED << configVars, splitVars, loggerVars, paceVars, cbVars, auditVars, op, error, sirVars, regVars, recVars,
                    histVars, countVars, lockVars,
                    joinable, run_thread_status, is_running, hwVars >>

\* while (is_running_)
PumpLoopCheck ==
    /\ pc[Pump] = "loop_check"
    /\ Goto(Pump, IF is_running THEN "poll" ELSE "run_ret")
    /\ UNCHANGED << configVars, splitVars, loggerVars, paceVars, cbVars, auditVars, op, error, sirVars, regVars, recVars, pumpVars,
                    histVars, countVars, lockVars, flagVars, hwVars >>

\* A loop that treats a negative poll result as "nothing yet".
AfterPoll_LoopOnFailure(r) == IF r <= 0 THEN "loop_check" ELSE "process"

\* A loop that processes the latest raw data again when the poll brought nothing.
AfterPoll_ProcessOnZero(r) == IF r < 0 THEN "run_ret" ELSE "process"

\* Where the loop goes on a poll result: break, loop again, or process the buffer.
AfterPoll(r) == IF r < 0 THEN "run_ret" ELSE IF r = 0 THEN "loop_check" ELSE "process"

\* res = i_events_stream_->wait_next_buffer()
PumpPoll ==
    /\ pc[Pump] = "poll"
    /\ \E r \in {-1, 0, 1} :
          /\ res' = r
          /\ range_state' = (IF r > 0 THEN "polled" ELSE range_state)
          /\ err_at_fail' = (IF r < 0 THEN err_map ELSE err_at_fail)
          /\ Goto(Pump, AfterPoll(r))
    /\ UNCHANGED << configVars, splitVars, loggerVars, paceVars, cbVars, auditVars, op, error, sirVars, regVars, recVars, emu_left,
                    tag_seen, sc_log, err_calls, countVars, lockVars, flagVars, hwVars >>

\* The poll of a stopped stream: wait_next_buffer() returns
PumpPollStopped == ~stream_started /\ PumpPoll

\* A pump that gives the raw callbacks the buffer before it is decoded.
PumpProcess_RawBeforeDecode ==
    /\ pc[Pump] = "process"
    /\ IF emulate_rt
       THEN \E n \in 1..MaxSub : emu_left' = n /\ Goto(Pump, "emu_check")
       ELSE emu_left' = emu_left /\ Goto(Pump, "raw_cb")
    /\ UNCHANGED << configVars, splitVars, loggerVars, paceVars, cbVars, auditVars, op, error, sirVars, regVars, recVars, res,
                    range_state, tag_seen, histVars, countVars, lockVars, flagVars, hwVars >>

\* A pump that decodes every buffer, whatever callbacks are registered.
PumpProcess_AlwaysDecode ==
    /\ pc[Pump] = "process"
    /\ IF emulate_rt
       THEN /\ \E n \in 1..MaxSub : emu_left' = n
            /\ Goto(Pump, "emu_check")
            /\ UNCHANGED << range_state, tag_seen >>
       ELSE /\ emu_left' = emu_left
            /\ Goto(Pump, "raw_cb")
            /\ \E tag_count \in 0..1 :
                  /\ tag_seen' = tag_count
                  /\ range_state' = "decoded"
    /\ UNCHANGED << configVars, splitVars, loggerVars, paceVars, cbVars, auditVars, op, error, sirVars, regVars, recVars, res,
                    histVars, countVars, lockVars, flagVars, hwVars >>

\* res > 0: ev_buffer = get_latest_raw_data(n_rawbytes); then either
\* emulate_real_time(ev_buffer, n_rawbytes) starts on a buffer of n sub-buffers,
\* or the buffer is decoded when a decode-triggering callback is registered
\* (tag_count(DECODE_CALLBACK_TAG_ID) # 0) and handed on undecoded when none is
PumpProcess ==
    /\ pc[Pump] = "process"
    /\ IF emulate_rt
       THEN /\ \E n \in 1..MaxSub : emu_left' = n
            /\ Goto(Pump, "emu_check")
            /\ UNCHANGED << range_state, tag_seen >>
       ELSE /\ emu_left' = emu_left
            /\ Goto(Pump, "raw_cb")
            /\ \E tag_count \in 0..1 :
                  /\ tag_seen' = tag_count
                  /\ range_state' = (IF tag_count # 0 THEN "decoded" ELSE "skipped")
    /\ UNCHANGED << configVars, splitVars, loggerVars, paceVars, cbVars, auditVars, op, error, sirVars, regVars, recVars, res,
                    histVars, countVars, lockVars, flagVars, hwVars >>

\* for (auto &cb : raw_data_->get_pimpl().get_cbs()) cb(ev_buffer, n_rawbytes)
PumpRawCb ==
    /\ pc[Pump] = "raw_cb"
    /\ range_state' = "none"
    /\ tag_seen' = 0
    /\ Goto(Pump, "loop_check")
    /\ UNCHANGED << configVars, splitVars, loggerVars, paceVars, cbVars, auditVars, op, error, sirVars, regVars, recVars, res,
                    emu_left, histVars, countVars, lockVars, flagVars, hwVars >>

\* An emulator that drains the polled buffer whatever is_running_ says.
PumpEmuCheck_Drain ==
    /\ pc[Pump] = "emu_check"
    /\ tag_seen' = tag_seen
    /\ IF emu_left > 0
       THEN /\ emu_left' = emu_left
            /\ range_state' = "polled"
            /\ Goto(Pump, "emu_dispatch")
       ELSE /\ emu_left' = 0
            /\ range_state' = "none"
            /\ Goto(Pump, "loop_check")
    /\ UNCHANGED << configVars, splitVars, loggerVars, paceVars, cbVars, auditVars, op, error, sirVars, regVars, recVars, res,
                    histVars, countVars, lockVars, flagVars, hwVars >>

\* emulate_real_time: for (; ev_buffer < ev_buffer_end && is_running_; ...); the
\* sub-buffers left when the loop ends are dropped with the buffer
PumpEmuCheck ==
    /\ pc[Pump] = "emu_check"
    /\ tag_seen' = tag_seen
    /\ IF emu_left > 0 /\ is_running
       THEN /\ emu_left' = emu_left
            /\ range_state' = "polled"
            /\ Goto(Pump, "emu_dispatch")
       ELSE /\ emu_left' = 0
            /\ range_state' = "none"
            /\ Goto(Pump, "loop_check")
    /\ UNCHANGED << configVars, splitVars, loggerVars, paceVars, cbVars, auditVars, op, error, sirVars, regVars, recVars, res,
                    histVars, countVars, lockVars, flagVars, hwVars >>

\* An emulation that decodes a sub-buffer only if a decode-triggering callback
\* is registered, as the non-emulated path does.
PumpEmuDispatch_IfTagged ==
    /\ pc[Pump] = "emu_dispatch"
    /\ \E tag_count \in 0..1 :
          /\ tag_seen' = tag_count
          /\ range_state' = (IF tag_count # 0 THEN "decoded" ELSE "skipped")
    /\ Goto(Pump, "emu_raw")
    /\ UNCHANGED << configVars, splitVars, loggerVars, paceVars, cbVars, auditVars, op, error, sirVars, regVars, recVars, res,
                    emu_left, histVars, countVars, lockVars, flagVars, hwVars >>

\* emulate_real_time: i_decoder_->decode(ev_buffer, ev_buffer + bytes_to_decode),
\* whatever the number of decode-triggering callbacks registered at that time
PumpEmuDispatch ==
    /\ pc[Pump] = "emu_dispatch"
    /\ range_state' = "decoded"
    /\ \E tag_count \in 0..1 : tag_seen' = tag_count
    /\ Goto(Pump, "emu_raw")
    /\ UNCHANGED << configVars, splitVars, loggerVars, paceVars, cbVars, auditVars, op, error, sirVars, regVars, recVars, res,
                    emu_left, histVars, countVars, lockVars, flagVars, hwVars >>

\* emulate_real_time: the raw callbacks on the sub-buffer, the pacing sleep, and
\* ev_buffer += bytes_to_decode
PumpEmuRaw ==
    /\ pc[Pump] = "emu_raw"
    /\ emu_left' = emu_left - 1
    /\ range_state' = "none"
    /\ tag_seen' = 0
    /\ Goto(Pump, "emu_check")
    /\ UNCHANGED << configVars, splitVars, loggerVars, paceVars, cbVars, auditVars, op, error, sirVars, regVars, recVars, res,
                    histVars, countVars, lockVars, flagVars, hwVars >>

\* run_from_camera / run_from_file: if (!run_main_loop()) return false; return true;
\* the functions return int.
RunFromReturn(r) == IF r = 0 THEN 0 ELSE 1

\* end_run that invokes the runtime-error callbacks whatever run_output is.
EndRunErrors_Always(run_output) ==
    err_calls' = [i \in Ids |-> IF i \in err_map THEN err_calls[i] + 1
                                 ELSE err_calls[i]]

\* end_run(run_output): the runtime-error callbacks of the snapshot, when
\* run_output == -1
EndRunErrors(run_output) ==
    IF run_output = -1
    THEN err_calls' = [i \in Ids |-> IF i \in err_map THEN err_calls[i] + 1
                                      ELSE err_calls[i]]
    ELSE UNCHANGED err_calls

\* end_run that also stops the recording.
PumpEndRun_StopsRecording ==
    /\ pc[Pump] = "run_ret"
    /\ EndRunErrors(RunFromReturn(res))
    /\ CallSir(Pump, FALSE, "done")
    /\ is_recording' = FALSE
    /\ stream_logging' = FALSE
    /\ UNCHANGED << configVars, splitVars, loggerVars, paceVars, cbVars, auditVars, op, error, regVars, n_rec, pumpVars,
                    sc_log, err_at_fail, countVars, lockVars, flagVars, hwVars >>

\* res = run_from_*(); end_run(res): ...; set_is_running(false)
PumpEndRun ==
    /\ pc[Pump] = "run_ret"
    /\ EndRunErrors(RunFromReturn(res))
    /\ CallSir(Pump, FALSE, "done")
    /\ UNCHANGED << configVars, splitVars, loggerVars, paceVars, cbVars, auditVars, op, error, regVars, recVars, pumpVars,
                    sc_log, err_at_fail, countVars, lockVars, flagVars, hwVars >>

\* ------------------------------------------------------------- condition variable
\* A wait on run_thread_cond_ may return without a notification.
SpuriousWake ==
    /\ n_spurious < MaxSpurious
    /\ \E w \in cv_waiters :
          /\ cv_waiters' = cv_waiters \ {w}
          /\ pc' = [pc EXCEPT ![w] = Relock(w)]
    /\ n_spurious' = n_spurious + 1
    /\ UNCHANGED << configVars, splitVars, loggerVars, paceVars, cbVars, auditVars, op, error, sirVars, regVars, recVars, pumpVars,
                    histVars, countVars, mutex, flagVars, hwVars >>

\* ------------------------------------------------------------- specification
\* A caller thread enters start() or stop().
CoreCall(t) ==
    \/ StartCall(t)
    \/ StopCall(t)

\* A caller thread goes on in start() or stop().
CoreStep(t) ==
    \/ StartEnter(t)
    \/ StartSetStatus(t)
    \/ StartNotify(t)
    \/ StartSpin(t)
    \/ StopEnter(t)
    \/ StopRelock(t)
    \/ StopStream(t)
    \/ StopDevice(t)
    \/ StopJoin(t)
    \/ SrecLog(t)
    \/ SrecFlag(t)
    \/ StopReturn(t)

\* start() and stop() under the tighter call budget of the specifications that
\* add recording or the registry to them
SideCall(t) ==
    \/ (n_start < MaxSideStarts /\ StartCall(t))
    \/ (n_stop < MaxSideStops /\ StopCall(t))

\* set_is_running up to its snapshot, on whichever thread runs it
SirStep(t) ==
    \/ SirRead(t)
    \/ SirWrite(t)
    \/ SirSnap(t)

\* The acquisition thread, outside set_is_running and the poll
PumpProgress ==
    \/ PumpRunLock
    \/ PumpNotify
    \/ PumpStreamStart
    \/ PumpDevStart
    \/ PumpDevReset
    \/ PumpLoopEnter
    \/ PumpLoopCheck
    \/ PumpProcess
    \/ PumpRawCb
    \/ PumpEmuCheck
    \/ PumpEmuDispatch
    \/ PumpEmuRaw
    \/ PumpEndRun

\* start(), stop() and the acquisition thread, with no callback registered
Next ==
    \/ \E t \in Clients : CoreCall(t)
    \/ \E t \in Clients : CoreStep(t)
    \/ \E t \in Threads : SirStep(t)
    \/ PumpProgress
    \/ PumpPoll
    \/ SpuriousWake

Spec == Init /\ [][Next]_vars

\* Recording: start_recording() and stop_recording() from the caller threads
RecCall(t) ==
    \/ StartRecordingCall(t)
    \/ StopRecordingCall(t)

RecStep(t) ==
    \/ RecLog(t)
    \/ RecSet(t)

\* The recording calls under the tighter budget of the specification that runs
\* them from every thread beside start() and stop()
SideRecCall(t) ==
    \/ (n_rec < MaxSideRecOps /\ StartRecordingCall(t))
    \/ (n_rec < MaxSideRecOps /\ StopRecordingCall(t))

\* Calls of start(), stop() and the recording functions begun so far
CallsBegun == n_start + n_stop + n_rec

NextRec ==
    \/ \E t \in Clients : CallsBegun < MaxRecCalls /\ SideCall(t)
    \/ \E t \in Clients : CoreStep(t)
    \/ \E t \in Threads : SirStep(t)
    \/ PumpProgress
    \/ PumpPoll
    \/ \E t \in Clients : CallsBegun < MaxRecCalls /\ SideRecCall(t)
    \/ \E t \in Clients : RecStep(t)

SpecRec == Init /\ [][NextRec]_vars

\* Recording calls issued one after the other (a start_recording() or
\* stop_recording() begins when no other is in progress), beside start(),
\* stop() and the acquisition thread
InRecordingCall(t) == op[t] \in {"start_recording", "stop_recording"}

SeqRecCall(t) ==
    \/ ((\A u \in Clients : ~InRecordingCall(u)) /\ StartRecordingCall(t))
    \/ ((\A u \in Clients : ~InRecordingCall(u)) /\ StopRecordingCall(t))

NextRecSeq ==
    \/ \E t \in Clients : CallsBegun < MaxSeqCalls /\ SideCall(t)
    \/ \E t \in Clients : CoreStep(t)
    \/ \E t \in Threads : SirStep(t)
    \/ PumpProgress
    \/ PumpPoll
    \/ \E t \in Clients : CallsBegun < MaxSeqCalls /\ SeqRecCall(t)
    \/ \E t \in Clients : RecStep(t)

SpecRecSeq == Init /\ [][NextRecSeq]_vars

\* The callback registry: add_*_callback and remove_*_callback from the caller
\* threads, and the invocation of the status-change callbacks
RegCall(t) ==
    \/ AddStatusCall(t)
    \/ AddErrorCall(t)
    \/ \E id \in Ids : RemoveStatus(t, id)
    \/ \E id \in Ids : RemoveError(t, id)

RegStep(t) ==
    \/ AddStatusInsert(t)
    \/ AddErrorInsert(t)

\* The registry calls under the tighter identifier budget of the specifications
\* that run them beside start() and stop()
SideRegCall(t) ==
    \/ (next_index <= MaxSideIds /\ AddStatusCall(t))
    \/ (next_index <= MaxSideIds /\ AddErrorCall(t))
    \/ \E id \in 1..MaxSideIds : RemoveStatus(t, id)
    \/ \E id \in 1..MaxSideIds : RemoveError(t, id)

NextReg ==
    \/ \E t \in Clients : SideCall(t)
    \/ \E t \in Clients : CoreStep(t)
    \/ \E t \in Threads : SirStep(t)
    \/ \E t \in Threads : SirCall(t)
    \/ PumpProgress
    \/ PumpPoll
    \/ \E t \in Clients : SideRegCall(t)
    \/ \E t \in Clients : RegStep(t)

SpecReg == Init /\ [][NextReg]_vars

\* The first start() of a session whose status-change callbacks, registered
\* from the caller threads before it, call the registry themselves; the run
\* ends by itself
StartStep(t) ==
    \/ StartEnter(t)
    \/ StartSetStatus(t)
    \/ StartNotify(t)
    \/ StartSpin(t)

CbStep(t) ==
    \/ CbAdd(t, "status")
    \/ CbAdd(t, "error")
    \/ \E id \in Ids : CbRemove(t, "status", id)
    \/ \E id \in Ids : CbRemove(t, "error", id)
    \/ CbReturn(t)

NextCb ==
    \/ \E t \in Clients : (n_start = 0 /\ StartCall(t))
    \/ \E t \in Clients : StartStep(t)
    \/ \E t \in Threads : SirStep(t)
    \/ \E t \in Threads : SirCallReentrant(t)
    \/ \E t \in Threads : CbStep(t)
    \/ PumpProgress
    \/ PumpPoll
    \/ \E t \in Clients : (n_start = 0 /\ AddStatusCall(t))
    \/ \E t \in Clients : AddStatusInsert(t)

SpecCb == Init /\ [][NextCb]_vars

\* The registration of runtime-error callbacks beside start(), stop() and the pump
NextErr ==
    \/ \E t \in Clients : SideCall(t)
    \/ \E t \in Clients : CoreStep(t)
    \/ \E t \in Threads : SirStep(t)
    \/ PumpProgress
    \/ PumpPoll
    \/ \E t \in Clients : (next_index <= MaxSideIds /\ AddErrorCall(t))
    \/ \E t \in Clients : AddErrorInsert(t)

SpecErr == Init /\ [][NextErr]_vars

\* The registry alone: add_*_callback and remove_*_callback from the caller
\* threads, no acquisition
NextIds ==
    \/ \E t \in Clients : RegCall(t)
    \/ \E t \in Clients : RegStep(t)

SpecIds == Init /\ [][NextIds]_vars

\* The default-constructed session, Camera(): every operation of the caller threads
InitUninit == Init /\ ~is_init

NextUninit ==
    \/ \E t \in Clients : CoreCall(t)
    \/ \E t \in Clients : RegCall(t)
    \/ \E t \in Clients : RecCall(t)

SpecUninit == InitUninit /\ [][NextUninit]_vars

\* Fair scheduling: a thread that can take a step of start(), of stop(), of
\* set_is_running or of the pump eventually takes it; a poll returns once the
\* stream has been stopped.  Nothing obliges a caller to call, a wait to wake
\* without a notification, or a started stream to deliver a buffer.
Fairness ==
    /\ \A t \in Clients : WF_vars(CoreStep(t) \/ SirStep(t))
    /\ WF_vars(PumpProgress \/ SirStep(Pump))
    /\ WF_vars(PumpPollStopped)

NextFair ==
    \/ \E t \in Clients : (/\ n_start < MaxSideStarts
                            /\ n_start + n_stop < MaxFairCalls
                            /\ StartCall(t))
    \/ \E t \in Clients : (n_start + n_stop < MaxFairCalls /\ StopCall(t))
    \/ \E t \in Clients : CoreStep(t)
    \/ \E t \in Threads : SirStep(t)
    \/ PumpProgress
    \/ PumpPoll
    \/ SpuriousWake

FairSpec == Init /\ [][NextFair]_vars /\ Fairness

\* ------------------------------------------------------------- properties
SirPcs == {"sir_read", "sir_write", "sir_snap", "sir_call"}

\* Where the pump is once it has left the loop of run_main_loop.
AfterLoopPcs == {"run_ret", "done"} \cup SirPcs

\* A stop() that has passed its joinable test.
StopPastTest(t) == op[t] = "stop" /\ pc[t] # "stop_lock"

\* C1: with no stop() call, at most one start() call returns true, a start()
\* call returns false only after another call has created the thread, and at
\* most one thread is created; never is there more than one acquisition thread.
C1_OneThread ==
    /\ n_threads <= 1
    /\ n_stop = 0 => /\ start_true <= 1
                     /\ spawned <= 1
                     /\ (start_false > 0 => spawned = 1)

C1_Witness == n_stop = 0 /\ start_true = 1 /\ start_false = 1

\* C4: once wait_next_buffer() has returned a negative value the pump is past
\* its loop (it polls no more and dispatches no more), and when it has ended
\* is_running is false.
C4_NoPollAfterFailure ==
    res < 0 => /\ pc[Pump] \in AfterLoopPcs
               /\ (pc[Pump] = "done" => ~is_running)

C4_Witness == res < 0 /\ pc[Pump] = "done" /\ spawned = 1 /\ n_stop = 0

\* C8 as stated: while no start() has returned true, no stop() has returned
\* true and is_running is false (read here outside any start() in progress).
C8_Orig ==
    start_true = 0 => /\ stop_true = 0
                      /\ ((\A t \in Clients : op[t] # "start") => ~is_running)

\* C8, amended: while no start() has created the acquisition thread, a stop()
\* call only ever returns false (it does not pass its joinable test) and
\* is_running is false.
C8_StopBeforeSpawn ==
    spawned = 0 => /\ stop_true = 0
                   /\ ~is_running
                   /\ \A t \in Clients : ~StopPastTest(t)

C8_Witness == is_init /\ spawned = 0 /\ stop_false > 0

\* C9 as stated: is_running is true only while the thread is joinable and the
\* run-thread status is STARTED or RUNNING.
C9_Orig == is_running => (joinable /\ run_thread_status \in {"STARTED", "RUNNING"})

\* start() between set_is_running(true) and run_thread_status_ = STARTED, or
\* stop() between run_thread_status_ = STOPPED and the write of is_running_,
\* both under run_thread_mutex_.
InStatusWindow ==
    /\ mutex \in Clients
    /\ \/ op[mutex] = "start" /\ pc[mutex] \in {"sir_snap", "sir_call", "start_set_status"}
       \/ op[mutex] = "stop" /\ pc[mutex] \in {"sir_read", "sir_write"}

\* C9, amended: is_running is true only while the thread is joinable, and then
\* the run-thread status is STARTED or RUNNING except inside the locked scope of
\* start() (is_running is set before the status) or of stop() (the status is
\* set before is_running is cleared).
C9_RunningHasThread ==
    is_running => /\ joinable
                  /\ (run_thread_status \in {"STARTED", "RUNNING"} \/ InStatusWindow)

C9_Witness == is_running /\ joinable /\ run_thread_status = "RUNNING" /\ mutex = Free

\* A status-change callback registered before the first start() and never removed.
Tracked(id) == id \in sc_early /\ id \notin sc_removed

\* STARTED, STOPPED, STARTED, ...: in order, none duplicated.
Alternates(log) ==
    \A i \in 1..Len(log) : log[i] = (IF i % 2 = 1 THEN "STARTED" ELSE "STOPPED")

Count(log, x) == Cardinality({i \in 1..Len(log) : log[i] = x})

\* No operation in progress and no acquisition thread.
Quiescent == (\A t \in Clients : pc[t] = "idle") /\ pc[Pump] = "none"

\* C2 as stated: a status-change callback registered before start() and never
\* removed gets STARTED and STOPPED in turn, never one of them twice in a row,
\* and once every call has returned and the thread is joined it has got one
\* STARTED per start() that returned true and one STOPPED per stop() that
\* returned true.
C2_Orig ==
    \A id \in Ids :
        Tracked(id) =>
            /\ Alternates(sc_log[id])
            /\ Quiescent => /\ Count(sc_log[id], "STARTED") = start_true
                            /\ Count(sc_log[id], "STOPPED") = stop_true

\* C3 as stated: in a live-mode session, when the first run of the pump has
\* ended on a negative poll result, every runtime-error callback registered at
\* the time of that result (and still registered) has been invoked exactly once.
C3_Orig ==
    (~from_file /\ spawned = 1 /\ res < 0 /\ pc[Pump] \in SirPcs \cup {"done"})
        => \A id \in err_at_fail \cap err_map : err_calls[id] = 1

\* C5: whenever stop() is in its stop_recording() call or past it, the
\* acquisition thread has been joined: it polls and dispatches no more.
C5_RecordingStoppedAfterJoin ==
    \A t \in Clients :
        (op[t] = "stop" /\ pc[t] \in {"srec_log", "srec_flag", "stop_ret"})
            => (pc[Pump] = "none" /\ ~joinable)

C5_Witness ==
    \E t \in Clients : op[t] = "stop" /\ pc[t] = "srec_log" /\ is_recording /\ stream_logging

\* C10 as stated: is_recording is true only while is_running is true or a
\* stop() is in progress with the thread not yet joined.
C10_Orig ==
    is_recording => (is_running \/ (joinable /\ \E t \in Clients : StopPastTest(t)))

\* C10, amended: is_recording does not follow is_running.  It becomes true only
\* by the last step of a start_recording() whose logging request succeeded, in
\* any run state, and false only by stop_recording(), which stop() calls only
\* after it has joined the thread; the end of a run alone never clears it.
C10_RecordingFlag ==
    [][ /\ (is_recording /\ ~is_recording') =>
              \E t \in Clients : /\ pc[t] = "srec_flag"
                                 /\ pc'[t] # "srec_flag"
                                 /\ (op[t] = "stop" => ~joinable /\ pc[Pump] = "none")
        /\ (~is_recording /\ is_recording') =>
              \E t \in Clients : /\ pc[t] = "rec_set"
                                 /\ pc'[t] = "idle"
                                 /\ op[t] = "start_recording"
                                 /\ error[t] = "none" ]_vars

C10_Witness ==
    /\ is_recording
    /\ ~is_running
    /\ \A t \in Clients : op[t] = "none"

\* A start() that has created the acquisition thread and has not returned.
StartPastTest(t) == op[t] = "start" /\ pc[t] # "start_lock"

\* C6: under fair scheduling a start() that has created the acquisition thread
\* returns (and the only return left to it is true), whatever the pump does.
C6_StartReturns ==
    /\ \A t \in Clients : StartPastTest(t) ~> (op[t] # "start")
    /\ [][\A t \in Clients :
            (StartPastTest(t) /\ op'[t] # "start") => start_true' = start_true + 1]_vars

\* start() is in its second busy-wait although the pump has already ended.
C6_Witness ==
    \E t \in Clients : op[t] = "start" /\ pc[t] = "start_spin" /\ pc[Pump] = "done"

\* C7: under fair scheduling, with a poll that returns once the stream has been
\* stopped and with no second stop() in progress at the same time, a stop()
\* that has passed its joinable test returns (the only return left to it is
\* true); when it is about to return the thread has been joined and is_running
\* is false.
C7_StopReturns ==
    /\ \A t \in Clients : StopPastTest(t) ~> (op[t] # "stop" \/ stop_overlap)
    /\ [][\A t \in Clients :
            (StopPastTest(t) /\ op'[t] # "stop") => stop_true' = stop_true + 1]_vars
    /\ [](\A t \in Clients :
            (op[t] = "stop" /\ pc[t] = "stop_ret")
                => (pc[Pump] = "none" /\ ~joinable /\ ~is_running))

\* stop() waits in join() while the pump is blocked in its poll.
C7_Witness ==
    /\ ~stop_overlap
    /\ \E t \in Clients : op[t] = "stop" /\ pc[t] = "stop_join" /\ pc[Pump] = "poll"

\* C11 as stated: a status-change callback is invoked only by a thread whose
\* write of is_running_ changed its value; a start() or a stop() that returns
\* false invokes none and changes no flag, status, map or device state.
C11_Orig ==
    [][ /\ \A t \in Threads :
              (pc[t] = "sir_call" /\ sc_log' # sc_log /\ snap'[t] # snap[t])
                  => sir_edge[t]
        /\ (start_false' # start_false \/ stop_false' # stop_false)
              => UNCHANGED << flagVars, hwVars, recVars, sc_map, err_map, next_index,
                              sc_log, err_calls >> ]_vars

\* C12: a runtime-error callback is invoked only by a step of the pump, taken
\* from the return of a loop that ended on a negative poll result, before the
\* pump enters its set_is_running(false); a run that stop() ended without a
\* stream failure invokes none.
C12_ErrorCallbacksOnlyOnFailure ==
    [][ err_calls' # err_calls =>
            /\ pc[Pump] = "run_ret"
            /\ pc'[Pump] = "sir_read"
            /\ res < 0 ]_vars

\* A run ended by stop() with no stream failure, a runtime-error callback being
\* registered: the pump has entered its set_is_running(false) and no
\* runtime-error callback has been invoked.
C12_Witness ==
    /\ pc[Pump] \in SirPcs \cup {"done"}
    /\ res >= 0
    /\ stop_overlap = FALSE
    /\ \E t \in Clients : op[t] = "stop" /\ pc[t] = "stop_join"
    /\ err_map # {}
    /\ \A id \in Ids : err_calls[id] = 0

\* The add_*_callback calls of the given kind that have returned the identifier.
Issued(kind, id) == \E i \in 1..Len(add_log) : add_log[i] = << kind, id >>

Removed(kind) == IF kind = "status" THEN sc_removed ELSE err_removed

\* C13: for both kinds, a remove_*_callback call returns true exactly when its
\* identifier was returned by an add_*_callback of that kind and no earlier
\* removal of it returned true (so true the first time, false the second, false
\* for an identifier never issued), and it raises no error.
C13_RemoveOnce ==
    [][ last_rm' # last_rm =>
            /\ last_rm'[3] = (Issued(last_rm'[1], last_rm'[2])
                                /\ last_rm'[2] \notin Removed(last_rm'[1]))
            /\ UNCHANGED error ]_vars

\* A second removal has returned false for a runtime-error callback, and a
\* status-change callback has been removed too.
C13_Witness ==
    /\ last_rm # << >>
    /\ last_rm[1] = "error"
    /\ last_rm[2] \in err_removed
    /\ last_rm[3] = FALSE
    /\ sc_removed # {}

\* The identifiers of the calls that have returned, in the order they returned.
AddIds == [i \in 1..Len(add_log) |-> add_log[i][2]]

C15_UninitializedChangesNothing ==
    [][ ~is_init =>
            /\ UNCHANGED << pc, op, sirVars, lockVars, flagVars, hwVars, pumpVars,
                            sc_map, err_map, next_index, my_id, add_log,
                            is_recording, stream_logging, spawned, n_threads,
                            start_true, start_false, stop_true, stop_false,
                            sc_log, err_calls >>
            /\ (n_start' # n_start => "start" \in failed')
            /\ (n_stop' # n_stop => "stop" \in failed')
            /\ (failed' # failed =>
                  \E t \in Clients : error'[t] = "CameraNotInitialized") ]_vars

\* Each of the four operations has been called on the uninitialized session.
C15_Witness ==
    /\ ~is_init
    /\ {"start", "stop", "add_status", "add_error"} \subseteq failed
    /\ next_index = 1
    /\ ~joinable

\* ---------------------------------------------------------------------------
\* Decoding and raw-buffer callbacks
\* ---------------------------------------------------------------------------
RawPcs == {"raw_cb", "emu_raw"}

\* C16 (as stated): whenever the raw-buffer callbacks are about to be invoked
\* with a range, that range has been decoded, so that the decoder's last
\* timestamp is the one this range produced.
C16_Orig == pc[Pump] \in RawPcs => range_state = "decoded"

\* C16: the raw-buffer callbacks are never invoked with a range whose decoding
\* is still to come: the range has been decoded, typed-event callbacks
\* included, or it is not decoded at all, which happens only outside real-time
\* emulation; in real-time emulation every sub-buffer handed to the raw
\* callbacks has been decoded.
C16_DecodeBeforeRaw ==
    /\ pc[Pump] \in RawPcs => range_state \in {"decoded", "skipped"}
    /\ pc[Pump] = "emu_raw" => range_state = "decoded"
    /\ range_state = "skipped" => ~emulate_rt /\ pc[Pump] = "raw_cb"

C16_Witness ==
    /\ pc[Pump] = "emu_raw"
    /\ range_state = "decoded"
    /\ emu_left = MaxSub

\* ---------------------------------------------------------------------------
\* Each polled range is dispatched once
\* ---------------------------------------------------------------------------
RangePcs == {"process", "raw_cb", "emu_check", "emu_dispatch", "emu_raw"}

\* C19: every range handed to the decoder and the raw callbacks comes from the
\* positive poll just before it and has not been dispatched yet; once
\* dispatched it is dropped (the loop polls again, the emulator advances to the
\* next sub-buffer), and no range is carried over a loop iteration, the end of
\* a run, a stop() or a later start().
C19_DispatchedOnce ==
    /\ [](pc[Pump] = "process" => range_state = "polled")
    /\ [](pc[Pump] = "emu_dispatch" => range_state = "polled" /\ emu_left > 0)
    /\ [](pc[Pump] \notin RangePcs => range_state = "none")
    /\ [][ /\ (pc[Pump] = "raw_cb" /\ pc'[Pump] # "raw_cb")
                 => range_state' = "none" /\ pc'[Pump] \in {"loop_check", "none"}
           /\ (pc[Pump] = "emu_raw" /\ pc'[Pump] # "emu_raw")
                 => range_state' = "none"
                    /\ (pc'[Pump] = "emu_check" => emu_left' = emu_left - 1)
           /\ (range_state' = "polled" /\ range_state # "polled")
                 => \/ pc[Pump] = "poll" /\ res' > 0
                    \/ pc[Pump] = "emu_check" /\ emu_left > 0 ]_vars

C19_Witness ==
    /\ spawned = 2
    /\ stop_true >= 1
    /\ pc[Pump] \in RawPcs
    /\ range_state \in {"decoded", "skipped"}

\* ---------------------------------------------------------------------------
\* A start_recording() that cannot open its destination
\* ---------------------------------------------------------------------------
\* The step on which log_raw_data reports failure to thread t.
RecFails(t) == pc[t] = "rec_log" /\ error'[t] = "CouldNotOpenFile" /\ pc'[t] = "idle"

\* C20: a start_recording() whose destination cannot be opened returns with the
\* could-not-open-file error and with is_recording false, and no step of the
\* call touches is_running, the run-thread status, the acquisition thread or
\* the callback maps.
C20_FailedRecordingLeavesSession ==
    [][ \A t \in Clients :
          /\ RecFails(t) => ~is_recording' /\ UNCHANGED << is_recording, stream_logging >>
          /\ (op[t] = "start_recording" /\ pc'[t] # pc[t])
                => UNCHANGED << flagVars, hwVars, pumpVars, lockVars, sc_map, err_map,
                                next_index, spawned, n_threads, sc_log, err_calls >>
                   /\ pc'[Pump] = pc[Pump] ]_vars

C20_Witness ==
    \E t \in Clients :
        /\ error[t] = "CouldNotOpenFile"
        /\ pc[t] = "idle"
        /\ n_rec = 2
        /\ ~is_recording
        /\ is_running
        /\ pc[Pump] = "poll"

\* ---------------------------------------------------------------------------
\* Real-time emulation: the pacing of the sub-buffers
\* ---------------------------------------------------------------------------
otherVars == << configVars, splitVars, loggerVars, auditVars, cbVars, pc, op, error, sirVars, regVars, recVars, pumpVars,
                histVars, countVars, lockVars, flagVars, hwVars >>

\* A pacing that maps one microsecond of timestamps to two of the clock.
ExpectedTs_HalfSpeed(clock0, ts0, cur_ts) == clock0 + 2 * (cur_ts - ts0)

\* diff = (1 / reading_speed_factor) * (cur_ts - first_ts_), with
\* reading_speed_factor = 1.; expected_ts = first_ts_clock_ + diff
ExpectedTs(clock0, ts0, cur_ts) == clock0 + (cur_ts - ts0)

\* if (cur_ts_clock < expected_ts) sleep_for(microseconds(expected_ts - cur_ts_clock))
SleepFor(cur_ts_clock, expected_ts) ==
    IF cur_ts_clock < expected_ts THEN expected_ts - cur_ts_clock ELSE 0

\* A run that does not clear the wall-clock anchor of the run before.
InitClocks_KeepClock ==
    /\ emu_pc = "init"
    /\ n_init < MaxRuns
    /\ n_init' = n_init + 1
    /\ first_ts' = last_timestamp
    /\ first_ts_clock' = first_ts_clock
    /\ emu_pc' = "loop"
    /\ UNCHANGED << last_timestamp, system_time_us, slept, otherVars >>

\* init_clocks(), at the start of run_main_loop
InitClocks ==
    /\ emu_pc = "init"
    /\ n_init < MaxRuns
    /\ n_init' = n_init + 1
    /\ first_ts' = last_timestamp
    /\ first_ts_clock' = 0
    /\ emu_pc' = "loop"
    /\ UNCHANGED << last_timestamp, system_time_us, slept, otherVars >>

\* One sub-buffer: i_decoder_->decode(...) moves the decoder's last timestamp,
\* the raw callbacks run, and the clock goes on meanwhile.
EmulateDecode ==
    /\ emu_pc = "loop"
    /\ \E ts \in 0..MaxTs : last_timestamp' = ts
    /\ \E d \in 0..MaxTick :
          /\ system_time_us + d <= ClockBase + MaxClock
          /\ system_time_us' = system_time_us + d
    /\ emu_pc' = "pace"
    /\ UNCHANGED << first_ts, first_ts_clock, slept, n_init, otherVars >>

\* cur_ts = get_last_timestamp(); cur_ts_clock = get_system_time_us(); the
\* anchors are taken if never done; then the sleep up to expected_ts, which may
\* last longer than asked
EmulatePace ==
    /\ emu_pc = "pace"
    /\ LET cur_ts       == last_timestamp
           cur_ts_clock == system_time_us
           anchor       == first_ts_clock = 0 /\ cur_ts # first_ts
           clock0       == IF anchor THEN cur_ts_clock ELSE first_ts_clock
           ts0          == IF anchor THEN cur_ts ELSE first_ts
           expected_ts  == ExpectedTs(clock0, ts0, cur_ts)
           d            == SleepFor(cur_ts_clock, expected_ts)
       IN  /\ first_ts_clock' = clock0
           /\ first_ts' = ts0
           /\ slept' = d
           /\ \E over \in {0, 1} :
                 /\ d = 0 => over = 0
                 /\ cur_ts_clock + d + over <= ClockBase + MaxClock
                 /\ system_time_us' = cur_ts_clock + d + over
    /\ emu_pc' = "loop"
    /\ UNCHANGED << last_timestamp, n_init, otherVars >>

\* The loop ends (end of file or stop()); a later start() runs it again.
EmulateEnd ==
    /\ emu_pc = "loop"
    /\ n_init < MaxRuns
    /\ emu_pc' = "init"
    /\ UNCHANGED << first_ts, first_ts_clock, last_timestamp, system_time_us, slept,
                    n_init, otherVars >>

InitEmu == Init /\ is_init /\ emulate_rt

NextEmu ==
    \/ InitClocks
    \/ EmulateDecode
    \/ EmulatePace
    \/ EmulateEnd

SpecEmu == InitEmu /\ [][NextEmu]_vars

NonNeg(x) == IF x > 0 THEN x ELSE 0

\* C18: once the anchors are set, the sleep after a sub-buffer lasts
\* max(0, expected - now) with expected = anchor_wallclock + (decoded_ts -
\* anchor_decoded_ts), so the next sub-buffer is dispatched no earlier than
\* expected; there is no sleep when now >= expected nor while the anchors are
\* not set. The anchors are the clock and the decoded timestamp of the first
\* sub-buffer whose timestamp differs from the one the run began with, and they
\* stay until the run ends.
C18_Pacing ==
    [][ (emu_pc = "pace" /\ emu_pc' = "loop") =>
          LET now      == system_time_us
              anchored == first_ts_clock' # 0
              expected == first_ts_clock' + (last_timestamp - first_ts')
          IN  /\ anchored => /\ slept' = NonNeg(expected - now)
                             /\ system_time_us' >= expected
                             /\ system_time_us' >= now + slept'
              /\ (~anchored \/ now >= expected) => slept' = 0 /\ system_time_us' = now
              /\ (first_ts_clock = 0 /\ anchored)
                    => first_ts_clock' = now /\ first_ts' = last_timestamp
              /\ first_ts_clock # 0 => UNCHANGED << first_ts, first_ts_clock >> ]_vars

C18_Witness ==
    /\ emu_pc = "loop"
    /\ n_init = 2
    /\ first_ts_clock > ClockBase
    /\ slept > 1
    /\ system_time_us = first_ts_clock + (last_timestamp - first_ts)

\* ---------------------------------------------------------------------------
\* Callbacks that call the registry
\* ---------------------------------------------------------------------------
DispatchPcs == {"sir_call", "cb_body"}

\* C17: the thread that invokes the status-change callbacks does not hold the
\* registry lock while it does, so a callback that adds or removes callbacks
\* gets the lock; the dispatch invokes the callbacks of the snapshot it took
\* from the map under the lock, each once, whatever the callbacks add or
\* remove: the snapshot is the map of that moment, only an invocation takes a
\* callback out of it, the callback invoked is one of those left, and the
\* dispatch ends when none is left.
C17_ReentrantCallbacks ==
    /\ [](\A t \in Threads : pc[t] \in DispatchPcs => cbs_mutex # t)
    /\ [][ \A t \in Threads :
             /\ (pc[t] = "sir_snap" /\ pc'[t] = "sir_call") => snap'[t] = sc_map
             /\ (pc[t] \in DispatchPcs /\ snap'[t] # snap[t])
                   => /\ pc[t] = "sir_call"
                      /\ \E id \in snap[t] :
                            /\ snap'[t] = snap[t] \ {id}
                            /\ Len(sc_log'[id]) = Len(sc_log[id]) + 1
                            /\ \A j \in Ids \ {id} : sc_log'[j] = sc_log[j]
             /\ (pc[t] \in DispatchPcs /\ sc_log' # sc_log /\ pc'[t] # pc[t])
                   => snap'[t] # snap[t]
             /\ (pc[t] \in DispatchPcs /\ pc'[t] \notin DispatchPcs) => snap[t] = {}
             /\ (pc[t] = "cb_body" /\ pc'[t] # "cb_body")
                   => cbs_mutex = Free /\ cbs_mutex' = Free ]_vars

\* Callback 1 removed callback 2 while it was invoked, and callback 2, which
\* the snapshot holds, has been invoked all the same and is about to return.
C17_Witness ==
    \E t \in Threads :
        /\ pc[t] = "cb_body"
        /\ snap[t] = {}
        /\ last_rm = << "status", 2, TRUE >>
        /\ 2 \notin sc_map
        /\ sc_log[1] = << "STARTED" >>
        /\ sc_log[2] = << "STARTED" >>

\* ---------------------------------------------------------------------------
\* stop_recording() when nothing is recorded
\* ---------------------------------------------------------------------------
\* Thread t takes a step of a stop_recording() call, its entry included.
StopRecordingStep(t) ==
    /\ pc'[t] # pc[t]
    /\ op[t] = "stop_recording" \/ op'[t] = "stop_recording"

\* C21: a stop_recording() on an initialized session that is not recording
\* raises no error, invokes no callback, leaves is_recording false, and changes
\* neither is_running, the run-thread status, the acquisition thread nor the
\* callback maps.
C21_StopRecordingNoOp ==
    [][ \A t \in Clients :
          (is_init /\ ~is_recording /\ StopRecordingStep(t))
             => /\ ~is_recording'
                /\ error'[t] = "none"
                /\ UNCHANGED << flagVars, hwVars, sc_map, err_map, next_index, sc_log,
                                err_calls, spawned, n_threads >>
                /\ pc'[Pump] = pc[Pump] ]_vars

C21_Witness ==
    \E t \in Clients :
        /\ op[t] = "none"
        /\ pc[t] = "idle"
        /\ error[t] = "none"
        /\ n_rec = 1
        /\ n_stop = 0
        /\ ~is_recording
        /\ ~stream_logging
        /\ is_running
        /\ \A u \in Clients : op[u] = "none"
        /\ n_start = 1
        /\ start_true = 1
        /\ pc[Pump] = "poll"

\* ---------------------------------------------------------------------------
\* StreamLoggerAlgorithm
\* ---------------------------------------------------------------------------
cameraVars == << configVars, splitVars, paceVars, cbVars, auditVars, pc, op, error, sirVars, regVars,
                 recVars, pumpVars, histVars, countVars, lockVars, flagVars, hwVars >>

\* Split times a caller may ask for: none (the default) or a number of seconds.
SplitTimes == {InvalidTimestamp} \cup (1..MaxSplit)

\* Buffer timestamps given to process_events, in microseconds.
LogTimestamps == {k * 1000000 : k \in 0..MaxLogTs}

\* enable(state, reset_ts, split_time_seconds); open_ok: output_.open succeeds
LoggerEnable(state, reset_ts, split_time_seconds, open_ok) ==
    /\ lg_call[1] < MaxLogOps
    /\ lg_call' = << lg_call[1] + 1, "enable", state, reset_ts, split_time_seconds >>
    /\ LET split_enabled      == split_time_seconds # InvalidTimestamp
           previously_enabled == split_timestamp_secs_ # InvalidTimestamp
       IN  /\ split_counter_' = (IF split_enabled /\ ~previously_enabled
                                 THEN 0 ELSE split_counter_)
           /\ split_timestamp_secs_' = (IF split_enabled THEN split_time_seconds
                                        ELSE split_timestamp_secs_)
           /\ split_timestamp_us_' = (IF split_enabled THEN split_time_seconds * 1000000
                                      ELSE split_timestamp_us_)
    /\ IF enable_ = state
       THEN /\ lg_thrown' = FALSE
            /\ UNCHANGED << enable_, initial_timestamp_, header_written_, output_open,
                            lg_opens >>
       ELSE /\ enable_' = state
            /\ IF state
               THEN /\ lg_opens' = lg_opens + 1
                    /\ output_open' = open_ok
                    /\ lg_thrown' = ~open_ok
                    /\ header_written_' = (IF open_ok THEN FALSE ELSE header_written_)
                    /\ initial_timestamp_' = (IF open_ok /\ reset_ts THEN last_timestamp_
                                              ELSE 0)
               ELSE /\ output_open' = FALSE
                    /\ lg_thrown' = FALSE
                    /\ initial_timestamp_' = 0
                    /\ UNCHANGED << header_written_, lg_opens >>
    /\ UNCHANGED << last_timestamp_, cameraVars >>

\* process_events(first, last, ts) on a buffer that is not empty and whose
\* events are all at or after initial_timestamp_: the header, the events,
\* split_file(ts), then last_timestamp_ = ts; open_ok: the open of split_file
LoggerProcessEvents(ts, open_ok) ==
    /\ lg_call[1] < MaxLogOps
    /\ lg_call' = << lg_call[1] + 1, "process_events", ts >>
    /\ lg_thrown' = FALSE
    /\ last_timestamp_' = ts
    /\ IF enable_ /\ output_open
       THEN IF split_timestamp_us_ # InvalidTimestamp
               /\ ts - initial_timestamp_ >= split_timestamp_us_
            THEN /\ split_counter_' = split_counter_ + 1
                 /\ lg_opens' = lg_opens + 1
                 /\ output_open' = open_ok
                 /\ header_written_' = FALSE
                 /\ initial_timestamp_' = ts
            ELSE /\ header_written_' = TRUE
                 /\ UNCHANGED << split_counter_, lg_opens, output_open, initial_timestamp_ >>
       ELSE UNCHANGED << split_counter_, lg_opens, output_open, header_written_,
                         initial_timestamp_ >>
    /\ UNCHANGED << enable_, split_timestamp_secs_, split_timestamp_us_, cameraVars >>

\* close()
LoggerClose ==
    /\ lg_call[1] < MaxLogOps
    /\ lg_call' = << lg_call[1] + 1, "close" >>
    /\ lg_thrown' = FALSE
    /\ output_open' = FALSE
    /\ UNCHANGED << enable_, split_timestamp_secs_, split_timestamp_us_, split_counter_,
                    initial_timestamp_, last_timestamp_, header_written_, lg_opens,
                    cameraVars >>

NextLogger ==
    \/ \E state, reset_ts, open_ok \in BOOLEAN : \E split \in SplitTimes :
          LoggerEnable(state, reset_ts, split, open_ok)
    \/ \E ts \in LogTimestamps : \E open_ok \in BOOLEAN : LoggerProcessEvents(ts, open_ok)
    \/ LoggerClose

SpecLogger == Init /\ [][NextLogger]_vars

\* The step is a call enable(state, reset_ts, split_time_seconds).
EnableCalled == lg_call' # lg_call /\ lg_call'[2] = "enable"

\* C22 (as documented): enable() ends with an exception when it is asked to
\* reset the timestamp or to change the split time while the logger is enabled
\* and its output is open.
C22_Orig ==
    [][ ( /\ EnableCalled
          /\ enable_ /\ output_open
          /\ lg_call'[3]
          /\ \/ lg_call'[4]
             \/ (lg_call'[5] # InvalidTimestamp /\ lg_call'[5] # split_timestamp_secs_) )
        => lg_thrown' ]_vars

\* ---------------------------------------------------------------------------
\* The run-thread status
\* ---------------------------------------------------------------------------
\* Thread t takes a step of the operation which.
StepOf(t, which) == op[t] = which /\ pc'[t] # pc[t]

\* C23: the run-thread status changes only from NOT_STARTED or STOPPED to
\* STARTED, by a start(); from STARTED to RUNNING, by the pump thread; from
\* RUNNING to STOPPED, by a stop().  The pump finds the status STARTED as soon
\* as it gets the run-thread lock: it never has to wait for it.
C23_StatusOrder ==
    /\ [][ run_thread_status' # run_thread_status =>
             \/ /\ run_thread_status \in {"NOT_STARTED", "STOPPED"}
                /\ run_thread_status' = "STARTED"
                /\ \E t \in Clients : StepOf(t, "start")
                /\ pc'[Pump] = pc[Pump]
             \/ /\ run_thread_status = "STARTED"
                /\ run_thread_status' = "RUNNING"
                /\ pc[Pump] = "run_lock" /\ pc'[Pump] = "run_notify"
             \/ /\ run_thread_status = "RUNNING"
                /\ run_thread_status' = "STOPPED"
                /\ \E t \in Clients : StepOf(t, "stop")
                /\ pc'[Pump] = pc[Pump] ]_vars
    /\ []((pc[Pump] = "run_lock" /\ mutex = Free) => run_thread_status = "STARTED")
    /\ [](pc[Pump] # "run_cvwait")

\* The second cycle: the status is STARTED again after a stop() that returned
\* true, and the new pump thread is about to take the lock.
C23_Witness ==
    /\ run_thread_status = "STARTED"
    /\ stop_true = 1
    /\ spawned = 2
    /\ pc[Pump] = "run_lock"
    /\ mutex = Free

\* ------------------------------------------------------------------ C24
\* C24: after a stop() that returned true the acquisition thread is joined
\* and stays so until the next start(); a start() that finds no joinable
\* thread spawns a new one and cannot return false; when it publishes its
\* status, is_running is true and the status becomes STARTED; it returns
\* only true. This holds in every start/stop cycle.
C24_RestartAfterStop ==
    [][ \A t \in Clients :
          /\ (StepOf(t, "stop") /\ stop_true' = stop_true + 1)
                => (~joinable' /\ pc'[Pump] = "none" /\ mutex' = Free)
          /\ (~joinable /\ joinable')
                => \E u \in Clients : StepOf(u, "start") /\ pc[u] = "start_lock"
          /\ (StepOf(t, "start") /\ pc[t] = "start_lock" /\ ~joinable)
                => /\ spawned' = spawned + 1
                   /\ joinable'
                   /\ pc'[Pump] = "run_lock"
                   /\ ret'[t] = "start_set_status"
                   /\ start_false' = start_false
          /\ (StepOf(t, "start") /\ pc[t] = "start_set_status")
                => /\ is_running /\ is_running'
                   /\ run_thread_status' = "STARTED"
          /\ (StepOf(t, "start") /\ pc[t] = "start_spin" /\ op'[t] # "start")
                => /\ start_true' = start_true + 1
                   /\ start_false' = start_false ]_vars

\* the second start() after a stop() that returned true has published STARTED
C24_Witness ==
    /\ stop_true = 1
    /\ spawned = 2
    /\ start_true = 1
    /\ run_thread_status = "STARTED"
    /\ is_running
    /\ \E t \in Clients : op[t] = "start" /\ pc[t] = "start_notify"

\* ------------------------------------------------------------------ C25
\* thread t is about to write is_running_ (set_is_running) or is_recording_
\* (start_recording, stop_recording)
WritesRunning(t) == pc[t] = "sir_write"
WritesRecording(t) == pc[t] \in {"rec_set", "srec_flag"}
\* thread t is about to read is_running_ to decide what to do next: the test
\* of set_is_running, the loop condition of run_main_loop
ReadsRunning(t) == pc[t] = "sir_read" \/ (t = Pump /\ pc[t] = "loop_check")
HoldsALock(t) == mutex = t \/ cbs_mutex = t

\* C25: every write of is_running and is_recording, and every read of
\* is_running that coordinates threads, is made by a thread holding the
\* registry lock or the run-thread lock, and no state has two threads about
\* to write the same flag with neither lock held.
C25_Orig ==
    /\ [][ \A t \in Threads :
             ((WritesRunning(t) \/ WritesRecording(t) \/ ReadsRunning(t)) /\ pc'[t] # pc[t])
                => HoldsALock(t) ]_vars
    /\ [](\A t, u \in Threads :
             (t # u /\ ~HoldsALock(t) /\ ~HoldsALock(u))
                => /\ ~(WritesRunning(t) /\ WritesRunning(u))
                   /\ ~(WritesRecording(t) /\ WritesRecording(u)))

\* ------------------------------------------------------------------ C26
\* stop() of thread t has unblocked the stream and has not joined the thread yet
StopUnblocked(t) == op[t] = "stop" /\ pc[t] \in {"stop_device", "stop_join"}

\* C26: stop() runs its steps in this order: the wait for RUNNING, status
\* STOPPED, set_is_running(false), the stop of the stream, the stop of the
\* device control if present, the join, the stop of the recording. is_running
\* is false when the stream is unblocked, and from the unblock to the join the
\* pump never enters wait_next_buffer(): the only call it can still make is
\* the one it was blocked in.
C26_StopOrder ==
    [][ \A t \in Clients : StepOf(t, "stop") =>
          /\ pc[t] \in {"stop_lock", "stop_relock"} =>
                /\ pc'[t] \in {"idle", "stop_cvwait", "sir_read"}
                /\ pc'[t] = "sir_read" =>
                      /\ run_thread_status = "RUNNING"
                      /\ run_thread_status' = "STOPPED"
                      /\ sir_arg'[t] = FALSE
                      /\ ret'[t] = "stop_stream"
                      /\ UNCHANGED << is_running, hwVars, joinable >>
                /\ pc'[t] = "stop_cvwait" => run_thread_status # "RUNNING"
          /\ pc[t] \in {"sir_read", "sir_write", "sir_snap", "sir_call"} =>
                /\ run_thread_status = "STOPPED"
                /\ pc[t] # "sir_read" => ~is_running'
                /\ pc'[t] = "stop_stream" => ~is_running'
                /\ UNCHANGED << hwVars, joinable, run_thread_status >>
          /\ pc[t] = "stop_stream" =>
                /\ ~is_running
                /\ run_thread_status = "STOPPED"
                /\ ~stream_started'
                /\ pc'[t] = "stop_device"
                /\ UNCHANGED << device_started, joinable >>
          /\ pc[t] = "stop_device" =>
                /\ from_file \/ ~device_started'
                /\ pc'[t] = "stop_join"
                /\ UNCHANGED << joinable, recVars >>
          /\ pc[t] = "stop_join" =>
                /\ joinable /\ ~joinable'
                /\ pc'[t] = "srec_log"
                /\ UNCHANGED recVars
          /\ pc[t] \in {"srec_log", "srec_flag"} =>
                /\ ~joinable
                /\ pc'[t] \in {"srec_flag", "stop_ret"}
                /\ pc'[t] = "stop_ret" => ~is_recording'
          /\ pc[t] = "stop_ret" => pc'[t] = "idle" ]_vars
    /\ [][ (\E t \in Clients : StopUnblocked(t)) =>
             /\ ~is_running /\ ~is_running'
             /\ pc[Pump] # "poll" => pc'[Pump] # "poll" ]_vars

\* the stream is unblocked while the pump is inside wait_next_buffer(): the
\* one call it can still make
C26_Witness ==
    /\ \E t \in Clients : StopUnblocked(t)
    /\ pc[Pump] = "poll"
    /\ ~is_running
    /\ ~stream_started
    /\ run_thread_status = "STOPPED"

\* ------------------------------------------------------------------ C27
\* C27 as stated: in real-time emulation a sub-buffer is decoded only if a
\* decode-triggering callback is registered when it is handled.
C27_Orig == (emulate_rt /\ pc[Pump] = "emu_raw" /\ range_state = "decoded") => tag_seen # 0

\* C27: in real-time emulation every sub-buffer is decoded, whether or not a
\* decode-triggering callback is registered, and the raw-buffer callbacks are
\* then invoked with the sub-buffer that was just decoded; the test of the
\* registered callbacks belongs to the non-emulated path only.
C27_EmulationAlwaysDecodes ==
    /\ [](emulate_rt => (pc[Pump] # "raw_cb" /\ range_state # "skipped"))
    /\ [](~emulate_rt => pc[Pump] \notin {"emu_check", "emu_dispatch", "emu_raw"})
    /\ [](pc[Pump] = "emu_raw" => range_state = "decoded")
    /\ [][ (pc[Pump] = "emu_dispatch" /\ pc'[Pump] # pc[Pump])
             => /\ pc'[Pump] = "emu_raw"
                /\ range_state = "polled" /\ range_state' = "decoded"
                /\ emu_left' = emu_left ]_vars
    /\ [][ (pc[Pump] = "emu_raw" /\ pc'[Pump] # pc[Pump])
             => /\ pc'[Pump] = "emu_check"
                /\ emu_left' = emu_left - 1 ]_vars

\* a sub-buffer decoded in emulation with no decode-triggering callback registered
C27_Witness ==
    /\ emulate_rt
    /\ pc[Pump] = "emu_raw"
    /\ range_state = "decoded"
    /\ tag_seen = 0

\* ------------------------------------------------------------------ C28
\* C28: without real-time emulation a positive poll decodes the full buffer
\* if and only if a decode-triggering callback is registered at that moment,
\* the raw-buffer callbacks get the buffer in either case, and a poll result
\* of zero goes back to the loop test with no range in hand, no decode and no
\* callback.
C28_DecodeIffTagged ==
    /\ [](~emulate_rt /\ pc[Pump] = "raw_cb"
             => /\ res > 0
                /\ range_state \in {"decoded", "skipped"}
                /\ range_state = "decoded" <=> tag_seen # 0)
    /\ [][ (~emulate_rt /\ pc[Pump] = "poll" /\ pc'[Pump] # pc[Pump] /\ res' > 0)
             => pc'[Pump] = "process" /\ range_state' = "polled" ]_vars
    /\ [][ (~emulate_rt /\ pc[Pump] = "process" /\ pc'[Pump] # pc[Pump])
             => pc'[Pump] = "raw_cb" ]_vars
    /\ [][ (~emulate_rt /\ pc[Pump] = "raw_cb" /\ pc'[Pump] # pc[Pump])
             => pc'[Pump] = "loop_check" /\ range_state' = "none" ]_vars
    /\ [][ (pc[Pump] = "poll" /\ pc'[Pump] # pc[Pump] /\ res' = 0)
             => /\ pc'[Pump] = "loop_check"
                /\ range_state' = "none" /\ tag_seen' = 0
                /\ UNCHANGED << sc_log, err_calls >> ]_vars
    /\ [][ (pc[Pump] = "loop_check" /\ pc'[Pump] # pc[Pump])
             => pc'[Pump] = (IF is_running THEN "poll" ELSE "run_ret") ]_vars

\* a full buffer handed to the raw-buffer callbacks undecoded
C28_Witness ==
    /\ ~emulate_rt
    /\ pc[Pump] = "raw_cb"
    /\ range_state = "skipped"
    /\ tag_seen = 0
    /\ res > 0

\* ------------------------------------------------------------------ C30
EmuStep(from, to) == emu_pc = from /\ emu_pc' = to

\* C30 as stated: the anchors are set at the first sub-buffer after which the
\* decoded timestamp has advanced past the value the run began with, and only
\* there.
C30_Orig ==
    [][ EmuStep("pace", "loop") =>
          ((first_ts_clock = 0 /\ first_ts_clock' # 0)
              <=> (first_ts_clock = 0 /\ last_timestamp > first_ts)) ]_vars

\* C30: every run begins with the wall-clock anchor cleared and the decoded
\* anchor set to the decoder's last timestamp; the anchors are then set at
\* the first sub-buffer after which the decoder's last timestamp differs from
\* that value, whether it is larger or smaller, to the clock and the timestamp
\* read there; once set they change no more until the next run begins.
C30_Anchors ==
    /\ [][ EmuStep("init", "loop")
             => first_ts_clock' = 0 /\ first_ts' = last_timestamp ]_vars
    /\ [][ EmuStep("pace", "loop") =>
             /\ (first_ts_clock = 0 /\ last_timestamp # first_ts)
                   => /\ first_ts_clock' = system_time_us
                      /\ first_ts_clock' # 0
                      /\ first_ts' = last_timestamp
             /\ (first_ts_clock = 0 /\ last_timestamp = first_ts)
                   => UNCHANGED << first_ts, first_ts_clock >>
             /\ first_ts_clock # 0 => UNCHANGED << first_ts, first_ts_clock >> ]_vars
    /\ [][ (first_ts' # first_ts \/ first_ts_clock' # first_ts_clock)
             => EmuStep("init", "loop") \/ (EmuStep("pace", "loop") /\ first_ts_clock = 0) ]_vars

\* in the second run the anchors are set and the decoded timestamp has moved
\* on since
C30_Witness ==
    /\ n_init = 2
    /\ emu_pc = "pace"
    /\ first_ts_clock # 0
    /\ first_ts = 1
    /\ last_timestamp = 3

\* ------------------------------------------------------------- sub-buffers
\* emulate_real_time cuts the polled buffer into sub-buffers. All sizes here
\* stay far below 2^31, where the conversions between long and uint32_t of the
\* code keep the value.
MaxEventSize == 2
MaxSteps     == 2
MaxBufs      == 2

\* constexpr uint32_t events_per_buffer_to_decode = 1024
events_per_buffer_to_decode == 1024

\* constexpr uint32_t min_events_per_buffer_to_decode = 128
min_events_per_buffer_to_decode == 128

StdMax(a, b) == IF a < b THEN b ELSE a
StdMin(a, b) == IF b < a THEN b ELSE a

\* bytes_step_to_decode, with reading_speed_factor = 1.: round(1024 * 1.) = 1024
BytesStepToDecode(size) ==
    StdMax(min_events_per_buffer_to_decode, size * events_per_buffer_to_decode)

\* Buffer sizes a poll may give: around each multiple of the step.
BufferSizes(size) ==
    { k * BytesStepToDecode(size) + d : k \in 0..MaxSteps, d \in {-1, 0, 1} }
        \cap (1..(MaxSteps * BytesStepToDecode(size) + 1))

nonSplitVars == << configVars, loggerVars, paceVars, cbVars, auditVars, pc, op, error, sirVars,
                   regVars, recVars, pumpVars, histVars, countVars, lockVars, joinable,
                   camera_is_started, run_thread_status, hwVars >>

\* In a run (begun by start() if none is under way: is_running_ is true at the
\* loop test) a positive poll hands a buffer of n_rawbytes bytes to
\* emulate_real_time: ev_buffer_ref = ev_buffer, ev_buffer_end = ev_buffer + n_rawbytes
SplitEnter ==
    /\ split_pc = "out"
    /\ n_bufs < MaxBufs
    /\ n_bufs' = n_bufs + 1
    /\ \E size \in 0..MaxEventSize :
          /\ raw_event_size_bytes' = size
          /\ \E n \in BufferSizes(size) : n_rawbytes' = n
    /\ ev_buffer' = 0
    /\ decoded' = << >>
    /\ is_running' = TRUE
    /\ split_pc' = "test"
    /\ UNCHANGED nonSplitVars

\* for (; ev_buffer < ev_buffer_end && is_running_; ...)
SplitTest ==
    /\ split_pc = "test"
    /\ split_pc' = (IF ev_buffer < n_rawbytes /\ is_running THEN "body" ELSE "end")
    /\ UNCHANGED << raw_event_size_bytes, n_rawbytes, ev_buffer, decoded, n_bufs, is_running,
                    nonSplitVars >>

\* A sub-buffer as large as the step, whatever remains of the buffer.
SplitBody_WholeStep ==
    /\ split_pc = "body"
    /\ LET bytes_to_decode == BytesStepToDecode(raw_event_size_bytes)
       IN  /\ decoded' = Append(decoded, << ev_buffer, bytes_to_decode >>)
           /\ ev_buffer' = ev_buffer + bytes_to_decode
    /\ split_pc' = "test"
    /\ UNCHANGED << raw_event_size_bytes, n_rawbytes, n_bufs, is_running, nonSplitVars >>

\* remains = distance(ev_buffer, ev_buffer_end); bytes_to_decode = min(remains,
\* bytes_step_to_decode); decode(ev_buffer, ev_buffer + bytes_to_decode); the raw
\* callbacks and the pacing; ev_buffer += bytes_to_decode
SplitBody ==
    /\ split_pc = "body"
    /\ LET remains         == n_rawbytes - ev_buffer
           bytes_to_decode == StdMin(remains, BytesStepToDecode(raw_event_size_bytes))
       IN  /\ decoded' = Append(decoded, << ev_buffer, bytes_to_decode >>)
           /\ ev_buffer' = ev_buffer + bytes_to_decode
    /\ split_pc' = "test"
    /\ UNCHANGED << raw_event_size_bytes, n_rawbytes, n_bufs, is_running, nonSplitVars >>

\* stop() on another thread: set_is_running(false) while the buffer is cut
SplitStop ==
    /\ split_pc \in {"test", "body"}
    /\ is_running
    /\ is_running' = FALSE
    /\ UNCHANGED << splitVars, nonSplitVars >>

\* emulate_real_time returns to the main loop
SplitLeave ==
    /\ split_pc = "end"
    /\ split_pc' = "out"
    /\ ev_buffer' = 0
    /\ decoded' = << >>
    /\ n_rawbytes' = 0
    /\ raw_event_size_bytes' = 0
    /\ UNCHANGED << n_bufs, is_running, nonSplitVars >>

InitSplit == Init /\ is_init /\ from_file /\ emulate_rt

NextSplit ==
    \/ SplitEnter
    \/ SplitTest
    \/ SplitBody
    \/ SplitStop
    \/ SplitLeave

SpecSplit == InitSplit /\ [][NextSplit]_vars

\* ------------------------------------------------------------------ C29
\* C29: the sub-buffers of a polled buffer of n bytes begin at offset 0, each
\* begins where the one before ends, each has min(remaining, step) bytes with
\* step = max(128, raw_event_size * 1024) >= 128, none is empty or goes beyond
\* the buffer; when the loop ends with is_running still true they cover the n
\* bytes, otherwise they cover a prefix of the buffer.
C29_SubBuffers ==
    LET size == raw_event_size_bytes
        step == IF size * 1024 > 128 THEN size * 1024 ELSE 128
        end(i) == decoded[i][1] + decoded[i][2]
        covered == IF decoded = << >> THEN 0 ELSE end(Len(decoded))
    IN  /\ step >= 128
        /\ \A i \in 1..Len(decoded) :
              /\ decoded[i][1] = (IF i = 1 THEN 0 ELSE end(i - 1))
              /\ decoded[i][2] = (IF n_rawbytes - decoded[i][1] < step
                                  THEN n_rawbytes - decoded[i][1] ELSE step)
              /\ decoded[i][2] > 0
              /\ end(i) <= n_rawbytes
        /\ ev_buffer = covered
        /\ (split_pc = "end" /\ is_running) => covered = n_rawbytes
        /\ (split_pc = "end" /\ ~is_running) => covered <= n_rawbytes

\* a buffer cut into full steps and a shorter last sub-buffer, all of it covered
C29_Witness ==
    /\ split_pc = "end"
    /\ is_running
    /\ Len(decoded) = MaxSteps + 1
    /\ decoded[Len(decoded)][2] < decoded[1][2]
    /\ raw_event_size_bytes > 0

\* ------------------------------------------------------------------ C40
\* C40: an enable(true) that fails to open the output file leaves the logger
\* disabled (is_enable() returns enable_), and an enable(true) that follows it
\* opens the file again.
C40_Orig ==
    [][ /\ (EnableCalled /\ lg_thrown') => ~enable_'
        /\ (EnableCalled /\ lg_call'[3] /\ lg_thrown /\ lg_call[2] = "enable")
              => lg_opens' = lg_opens + 1 ]_vars

\* ------------------------------------------------------------------ C31
\* stop() of thread t holds the run-thread lock and is_running is false
StopCleared(t) == op[t] = "stop" /\ mutex = t /\ ~is_running

\* C31: in real-time emulation, from the moment stop() has is_running false
\* until it returns, is_running stays false, the emulator begins no sub-buffer
\* (it only finishes the one it had begun), and its loop test drops the rest
\* of the polled buffer whatever remains of it.
C31_EmulationAborts ==
    [][ (\E t \in Clients : StopCleared(t)) =>
          /\ ~is_running'
          /\ pc[Pump] # "emu_dispatch" => pc'[Pump] # "emu_dispatch"
          /\ (pc[Pump] = "emu_check" /\ pc'[Pump] # pc[Pump])
                => /\ pc'[Pump] = "loop_check"
                   /\ emu_left' = 0
                   /\ range_state' = "none" ]_vars

\* stop() has cleared is_running between two sub-buffers, with sub-buffers left
C31_Witness ==
    /\ \E t \in Clients : StopCleared(t)
    /\ emulate_rt
    /\ pc[Pump] = "emu_check"
    /\ emu_left > 0
    /\ emu_left < MaxSub

\* ------------------------------------------------------------------ C32
\* C32: a start_recording() first stops the recording in progress (the stream
\* stops logging, is_recording is cleared) and only then asks the stream to
\* log to the new path, so the stream is not logging when it is asked; the
\* call returns with is_recording true exactly when the stream accepted the
\* request.
C32_RestartRecording ==
    [][ \A t \in Clients : StepOf(t, "start_recording") =>
          /\ pc[t] = "srec_log" => (~stream_logging' /\ pc'[t] = "srec_flag")
          /\ pc[t] = "srec_flag" => (~stream_logging /\ ~is_recording' /\ pc'[t] = "rec_log")
          /\ pc[t] = "rec_log" =>
                /\ ~stream_logging /\ ~is_recording
                /\ \/ pc'[t] = "rec_set" /\ stream_logging' /\ error'[t] = "none"
                   \/ RecFails(t) /\ ~stream_logging'
          /\ pc[t] = "rec_set" => (is_recording' /\ pc'[t] = "idle")
          /\ op'[t] = "none" => (is_recording' <=> pc[t] = "rec_set") ]_vars

\* a start_recording() made while a recording is active has stopped the
\* stream's logging and is about to clear is_recording
C32_Witness ==
    \E t \in Clients :
        /\ op[t] = "start_recording"
        /\ pc[t] = "srec_flag"
        /\ is_recording
        /\ ~stream_logging
        /\ n_rec = 2

\* ------------------------------------------------------------------ C33
\* the acquisition thread takes a step from position l
PumpStepFrom(l) == pc[Pump] = l /\ pc'[Pump] # l

\* C33: the pump starts the event stream first; in live mode it then starts
\* the device control and then resets the device, and only then enters the
\* main loop, whose first step precedes every wait_next_buffer(); in file
\* mode it goes from the start of the stream to the main loop and no step of
\* it touches the device control.
C33_PumpStartOrder ==
    /\ [](from_file => pc[Pump] \notin {"run_dev_start", "run_dev_reset"})
    /\ [][ /\ PumpStepFrom("run_notify") => pc'[Pump] = "run_stream_start"
           /\ PumpStepFrom("run_stream_start")
                 => /\ stream_started'
                    /\ device_started' = device_started
                    /\ pc'[Pump] = (IF from_file THEN "loop_enter" ELSE "run_dev_start")
           /\ PumpStepFrom("run_dev_start")
                 => device_started' /\ pc'[Pump] = "run_dev_reset"
           /\ PumpStepFrom("run_dev_reset") => pc'[Pump] = "loop_enter"
           /\ (pc'[Pump] = "loop_enter" /\ pc[Pump] # "loop_enter")
                 => pc[Pump] = (IF from_file THEN "run_stream_start" ELSE "run_dev_reset")
           /\ PumpStepFrom("loop_enter") => pc'[Pump] = "loop_check"
           /\ (pc'[Pump] = "poll" /\ pc[Pump] # "poll") => pc[Pump] = "loop_check"
           /\ (pc'[Pump] = "loop_check" /\ pc[Pump] # "loop_check")
                 => pc[Pump] \in {"loop_enter", "poll", "raw_cb", "emu_check"}
           /\ (from_file /\ pc'[Pump] # pc[Pump] /\ pc'[Pump] # "none")
                 => device_started' = device_started ]_vars

\* a live pump in its first wait_next_buffer(), stream and device started
C33_Witness ==
    /\ ~from_file
    /\ pc[Pump] = "poll"
    /\ stream_started
    /\ device_started
    /\ res = 0
    /\ spawned = 1
    /\ n_stop = 0

\* ------------------------------------------------------------------ C34
\* C34: when stop() returns true the event stream, and in live mode the device
\* control, are stopped: no start of them by the pump came after their stop
\* by stop().
C34_Orig ==
    [][ \A t \in Clients :
          (StepOf(t, "stop") /\ stop_true' = stop_true + 1)
             => (~stream_started' /\ ~device_started') ]_vars

\* ------------------------------------------------------------------ C35
\* C35: under fair scheduling every stop() that has passed its joinable test
\* returns, also when another stop() is in progress at the same time; of two
\* stop() calls made on one started session at most one returns true, and the
\* thread is joined once.
C35_Orig ==
    /\ \A t \in Clients : StopPastTest(t) ~> (op[t] # "stop")
    /\ [](spawned = 1 => stop_true <= 1)
    /\ [][ joinable' # joinable => (joinable' \/ pc'[Pump] = "none") ]_vars

\* ---------------------------------------------------------------------------
\* A run that ends by itself
\* ---------------------------------------------------------------------------
MaxEndCalls == 3

\* start() and stop() from the caller threads, the acquisition thread, and
\* status-change callbacks registered before the first start()
NextEnd ==
    \/ \E t \in Clients : (n_start + n_stop < MaxEndCalls /\ StartCall(t))
    \/ \E t \in Clients : (n_start + n_stop < MaxEndCalls /\ n_stop < MaxSideStops /\ StopCall(t))
    \/ \E t \in Clients : CoreStep(t)
    \/ \E t \in Threads : SirStep(t)
    \/ \E t \in Threads : SirCall(t)
    \/ PumpProgress
    \/ PumpPoll
    \/ \E t \in Clients : (n_start = 0 /\ next_index <= MaxSideIds /\ AddStatusCall(t))
    \/ \E t \in Clients : AddStatusInsert(t)

\* An initialized session: a live camera, or a file read with real-time emulation
InitEnd == Init /\ is_init /\ (from_file => emulate_rt)

SpecEnd == InitEnd /\ [][NextEnd]_vars

\* ------------------------------------------------------------------ C36
\* the acquisition thread has returned from run() and has not been joined
PumpEnded == pc[Pump] = "done"

\* C36: once the acquisition thread has ended, and until a stop() joins it,
\* is_running is false and the thread stays joinable: a start() returns false
\* and creates no thread; a stop() that takes the lock then goes on (the status
\* is RUNNING), finds is_running already false in set_is_running(false) and
\* goes to the stop of the stream without invoking a status-change callback,
\* and the only return left to it is true. No start() returns true again
\* before a stop() has returned true.
C36_EndedByItself ==
    /\ [](PumpEnded => (~is_running /\ joinable))
    /\ [](start_true <= stop_true + 1)
    /\ [][ \A t \in Clients :
             /\ (PumpEnded /\ StepOf(t, "start") /\ pc[t] = "start_lock")
                   => /\ start_false' = start_false + 1
                      /\ op'[t] = "none"
                      /\ UNCHANGED << spawned, n_threads, flagVars, sc_log, pc[Pump] >>
             /\ (PumpEnded /\ StepOf(t, "stop") /\ pc[t] \in {"stop_lock", "stop_relock"})
                   => /\ run_thread_status = "RUNNING"
                      /\ run_thread_status' = "STOPPED"
                      /\ pc'[t] = "sir_read"
                      /\ UNCHANGED << stop_false, sc_log >>
             /\ (PumpEnded /\ StepOf(t, "stop") /\ pc[t] = "sir_read")
                   => /\ pc'[t] = "stop_stream"
                      /\ UNCHANGED << is_running, sc_log, snap >>
             /\ (StopPastTest(t) /\ op'[t] # "stop")
                   => stop_true' = stop_true + 1 /\ sc_log' = sc_log ]_vars

\* the run ended by itself, the callback got STARTED and STOPPED, a start()
\* returned false, and stop() goes past set_is_running(false) with no callback
C36_Witness ==
    \E t \in Clients :
        /\ op[t] = "stop"
        /\ pc[t] = "stop_stream"
        /\ PumpEnded
        /\ res < 0
        /\ start_false = 1
        /\ sc_log[1] = << "STARTED", "STOPPED" >>

\* ---------------------------------------------------------------------------
\* start() and stop() called by a status-change callback
\* ---------------------------------------------------------------------------
\* the callback calls start() or stop() on the dispatching thread:
\* check_initialization(), then std::unique_lock<std::mutex> lock(run_thread_mutex_)
CbCallSession(t, which) ==
    /\ pc[t] = "cb_body"
    /\ Goto(t, IF which = "stop" THEN "nested_stop_lock" ELSE "nested_start_lock")
    /\ UNCHANGED << configVars, splitVars, loggerVars, paceVars, cbVars, auditVars, op, error, sirVars, regVars, recVars,
                    pumpVars, histVars, countVars, lockVars, flagVars, hwVars >>

\* What the lock of run_thread_mutex_ does on the thread that owns it (start()
\* and stop() dispatch with the mutex held; std::mutex is not recursive): the
\* behaviour is undefined; the thread blocks for ever or lock() throws
\* std::system_error.
RelockOutcomes == {"self_deadlock", "lock_error"}

\* start() in a callback: the lock, then the joinable test. The thread is
\* joinable while callbacks are dispatched: return false.
NestedStartLock(t) ==
    /\ pc[t] = "nested_start_lock"
    /\ IF mutex = t
       THEN \E o \in RelockOutcomes : Goto(t, o)
       ELSE /\ mutex = Free
            /\ joinable
            /\ Goto(t, AfterCallback(t))
    /\ UNCHANGED << configVars, splitVars, loggerVars, paceVars, cbVars, auditVars, op, error, sirVars, regVars, recVars,
                    pumpVars, histVars, countVars, lockVars, flagVars, hwVars >>

\* stop() in a callback: the lock, the joinable test, the wait for RUNNING
\* (the status of a run whose pump dispatches from end_run), STOPPED, and
\* set_is_running(false), which finds is_running_ false already
NestedStopLock(t) ==
    /\ pc[t] = "nested_stop_lock"
    /\ IF mutex = t
       THEN /\ \E o \in RelockOutcomes : Goto(t, o)
            /\ UNCHANGED << mutex, run_thread_status >>
       ELSE /\ mutex = Free
            /\ joinable
            /\ run_thread_status = "RUNNING"
            /\ ~is_running
            /\ mutex' = t
            /\ run_thread_status' = "STOPPED"
            /\ Goto(t, "nested_stop_stream")
    /\ UNCHANGED << configVars, splitVars, loggerVars, paceVars, cbVars, auditVars, op, error, sirVars, regVars, recVars,
                    pumpVars, histVars, countVars, cv_waiters, n_spurious,
                    joinable, camera_is_started, is_running, hwVars >>

\* stop() in a callback of the acquisition thread: i_events_stream_->stop(),
\* i_device_control_->stop(), then run_thread_.join() on the thread itself, which
\* throws std::system_error (resource_deadlock_would_occur); stop() catches
\* CameraException only, so the exception leaves the callback and the thread
NestedStopJoin(t) ==
    /\ pc[t] = "nested_stop_stream"
    /\ t = Pump
    /\ stream_started' = FALSE
    /\ device_started' = (IF from_file THEN device_started ELSE FALSE)
    /\ Goto(t, "self_join")
    /\ UNCHANGED << configVars, splitVars, loggerVars, paceVars, cbVars, auditVars, op, error, sirVars, regVars, recVars,
                    pumpVars, histVars, countVars, lockVars, flagVars >>

NestedStep(t) ==
    \/ CbCallSession(t, "start")
    \/ CbCallSession(t, "stop")
    \/ NestedStartLock(t)
    \/ NestedStopLock(t)
    \/ NestedStopJoin(t)

\* The first start() of a session whose status-change callbacks, registered
\* before it, call start() or stop(); the run ends by itself
NextNested ==
    \/ \E t \in Clients : (n_start = 0 /\ StartCall(t))
    \/ \E t \in Clients : StartStep(t)
    \/ \E t \in Threads : SirStep(t)
    \/ \E t \in Threads : SirCallReentrant(t)
    \/ \E t \in Threads : CbReturn(t)
    \/ \E t \in Threads : NestedStep(t)
    \/ PumpProgress
    \/ PumpPoll
    \/ \E t \in Clients : (n_start = 0 /\ AddStatusCall(t))
    \/ \E t \in Clients : AddStatusInsert(t)

SpecNested == Init /\ [][NextNested]_vars

\* ------------------------------------------------------------------ C37
\* C37: a start() or stop() made by a status-change callback never leaves its
\* thread blocked on the run-thread lock it holds, never fails in that lock,
\* and never has the acquisition thread join itself.
C37_Orig ==
    \A t \in Threads : pc[t] \notin RelockOutcomes \cup {"self_join"}

\* ------------------------------------------------------------------ C38
\* C38: no step invokes a status-change or runtime-error callback whose
\* removal has returned true.
C38_Orig ==
    [][ \A id \in Ids :
           /\ sc_log'[id] # sc_log[id] => id \notin sc_removed
           /\ err_calls'[id] # err_calls[id] => id \notin err_removed ]_vars

\* ------------------------------------------------------------------ C39
\* The map of the given kind and the map of the other kind.
MapOf(kind) == IF kind = "status" THEN sc_map ELSE err_map

OtherKind(kind) == IF kind = "status" THEN "error" ELSE "status"

\* C39: the two callback maps are independent. A remove_*_callback of one kind
\* called with an identifier returned by the add_*_callback of the other kind
\* returns false and changes neither map; every removal and every insertion of
\* one kind leaves the map of the other kind as it was, and a removal changes
\* its own map by the one identifier at most.
C39_MapsIndependent ==
    [][ /\ last_rm' # last_rm =>
              /\ Issued(OtherKind(last_rm'[1]), last_rm'[2]) =>
                    /\ last_rm'[3] = FALSE
                    /\ UNCHANGED << sc_map, err_map >>
              /\ last_rm'[1] = "status" =>
                    (err_map' = err_map /\ sc_map' = sc_map \ {last_rm'[2]})
              /\ last_rm'[1] = "error" =>
                    (sc_map' = sc_map /\ err_map' = err_map \ {last_rm'[2]})
        /\ \A t \in Clients :
              (pc[t] = "add_insert" /\ pc'[t] = "idle") =>
                  /\ op[t] = "add_status" => (err_map' = err_map /\ sc_map' = sc_map \cup {my_id[t]})
                  /\ op[t] = "add_error" => (sc_map' = sc_map /\ err_map' = err_map \cup {my_id[t]}) ]_vars

\* A removal of one kind has just been called with the identifier of a
\* registered callback of the other kind and returned false; the callback is
\* still registered, and so is a callback of the kind of the removal.
C39_Witness ==
    /\ last_rm # << >>
    /\ last_rm[3] = FALSE
    /\ Issued(OtherKind(last_rm[1]), last_rm[2])
    /\ last_rm[2] \in MapOf(OtherKind(last_rm[1]))
    /\ MapOf(last_rm[1]) # {}

====
